---- MODULE Spec2Model ----
(***************************************************************************)
(* Model of the composite graph nodes of cudnn-frontend:                   *)
(*   ScaledDotProductFlashAttentionNode          (kind "sdpa_fwd")         *)
(*   ScaledDotProductFlashAttentionBackwardNode  (kind "sdpa_bwd")         *)
(*   DLNNode, layer-norm backward                (kind "dln")              *)
(* One behaviour is one node driven through pre_validate_node,             *)
(* expand_and_infer_properties, post_validate_node and                     *)
(* pass_by_value_tensors_.  Tensor descriptors live in the table T, keyed  *)
(* by a handle (a string); the handle "null" is the null shared_ptr.       *)
(***************************************************************************)
EXTENDS Integers, Sequences, FiniteSets, TLC

VARIABLES
    kind,        \* which node class this behaviour drives
    attr,        \* the scalar attributes of the node (optionals, mask toggles)
    ctx,         \* detail::Context, backend version, device, environment
    given,       \* the tensor descriptors as the caller built them
    T,           \* handle -> Tensor_attributes, the live descriptors
    children,    \* the sub nodes appended by expand_and_infer_properties
    mem,         \* the node's private shared_ptr members
    sizes,       \* dQ_accum_size, softmax_sum_size, alibi_slopes_size
    use_workspace_opt, \* the local of the backward expansion
    pbv,         \* tensor_to_pass_by_value: handle -> value
    calls,       \* runtime calls issued by the node, in order
    workspace,   \* the last value returned by get_fe_workspace_size_node
    first,       \* T as it was after the first expansion
    pc,          \* pipeline position
    err          \* error code of the last operation

vars == <<kind, attr, ctx, given, T, children, mem, sizes, use_workspace_opt,
          pbv, calls, workspace, first, pc, err>>

---------------------------------------------------------------------------
(* Bounds of the model *)

\* innermost strides the caller may declare range over 1..MaxStride
MaxStride == 2
\* at most MaxBad descriptors carry a non-unit innermost stride at once
MaxBad == 2
\* batch sizes 1..MaxBatch and head counts 1..MaxHeads in the shape family
MaxBatch == 2
MaxHeads == 2

---------------------------------------------------------------------------
(* Program constants *)

\* hidden_dim <= 128
MaxHiddenDim == 128
\* hidden_dim % 8 == 0
HiddenDimMultiple == 8
\* cudnnGetVersion() > 8902: zero-probability dropout is skipped
VersionDropoutSkip == 8902
\* cudnnGetVersion() >= 8905, < 8905: workspace optimisation, softmax_sum
VersionWorkspaceOpt == 8905
\* prop.major >= 9
HopperMajor == 9
\* cudnnGetVersion() < 8906: epsilon tensor of layer-norm backward
VersionEpsilon == 8906
\* sizeof(float)
SizeofFloat == 4
\* sequence lengths are rounded up to 64
WorkspaceTile == 64
\* int64_t max_dp_workspace_bytes = 256 * 1024 * 1024
DefaultDpWorkspaceBytes == 256 * 1024 * 1024

---------------------------------------------------------------------------
(* error_code_t, and the two ways a call can end without returning one *)

OK == "OK"
ATTRIBUTE_NOT_SET == "ATTRIBUTE_NOT_SET"
GRAPH_NOT_SUPPORTED == "GRAPH_NOT_SUPPORTED"
CUDNN_BACKEND_API_FAILED == "CUDNN_BACKEND_API_FAILED"
CUDA_API_FAILED == "CUDA_API_FAILED"
\* std::optional::value() on an empty optional throws
BAD_OPTIONAL_ACCESS == "BAD_OPTIONAL_ACCESS"
\* an out-of-bounds read that faults
CRASH == "CRASH"

NULL == "null"

---------------------------------------------------------------------------
(* Tensor_attributes *)

Tensor(dim, stride, dtype, virt, is_pbv) ==
    [dim |-> dim, stride |-> stride, dtype |-> dtype, virt |-> virt, pbv |-> is_pbv]

\* std::make_shared<Tensor_attributes>()
NewTensor == Tensor(<<>>, <<>>, "NOT_SET", FALSE, FALSE)

\* the output descriptor the functional-style helpers create
VirtualTensor == Tensor(<<>>, <<>>, "NOT_SET", TRUE, FALSE)

Bound(tbl, h) == h \in DOMAIN tbl

\* attributes.inputs[name]: the handle, or the null pointer
Port(tbl, h) == IF Bound(tbl, h) THEN h ELSE NULL

Back(s) == s[Len(s)]

\* std::swap(temp_vec[2], temp_vec[3]) (0-based) on a 4-vector
Swap23_mut(v) == <<v[1], v[3], v[2], v[4]>>
Swap23(v) == <<v[1], v[2], v[4], v[3]>>

\* row-major stride of a 4-d shape
PackedStride(d) == <<d[2] * d[3] * d[4], d[3] * d[4], d[4], 1>>

\* detail::generate_stride(dim, detail::generate_NHWC_stride_order(4))
NHWCStride(d) == <<d[2] * d[3] * d[4], 1, d[4] * d[2], d[2]>>

---------------------------------------------------------------------------
(* Reading get_stride().back().  On an empty vector the read is out of     *)
(* bounds: it faults, or yields whatever lies before the buffer (0 stands  *)
(* for every value other than 1).                                          *)

StrideUnset(t) == t.stride = <<>>

BackReads(t) == IF StrideUnset(t) THEN {0, 1} ELSE {Back(t.stride)}

\* *(get_stride().end() - 2)
Back2Reads(t) ==
    IF Len(t.stride) < 2 THEN {0, 1} ELSE {t.stride[Len(t.stride) - 1]}

\* reads: a sequence of sets of values read; the outcomes of requiring every
\* read to be 1, where faulty[i] says read i is out of bounds
StrideCheck(reads, faulty) ==
    LET idx == 1..Len(reads)
        bad(i) == reads[i] # {1}
        pass == \A i \in idx : 1 \in reads[i]
        rejected == \E i \in idx : bad(i)
        faults == \E i \in idx : faulty[i]
    IN  (IF pass THEN {"pass"} ELSE {})
        \cup (IF rejected THEN {GRAPH_NOT_SUPPORTED} ELSE {})
        \cup (IF faults THEN {CRASH} ELSE {})

\* the same with one early return per read (CUDNN_FE_VALIDATE_STRIDE)
StrideCheckSeq(reads, faulty) ==
    LET idx == 1..Len(reads)
        reach(i) == \A j \in 1..(i - 1) : 1 \in reads[j]
    IN  (IF \A i \in idx : 1 \in reads[i] THEN {"pass"} ELSE {})
        \cup (IF \E i \in idx : reach(i) /\ reads[i] # {1}
              THEN {GRAPH_NOT_SUPPORTED} ELSE {})
        \cup (IF \E i \in idx : reach(i) /\ faulty[i] THEN {CRASH} ELSE {})

---------------------------------------------------------------------------
(* Attributes::validate_inputs / validate_outputs *)

\* every required input port holds a tensor
validate_inputs(tbl, required) ==
    IF \A p \in required : Bound(tbl, p) THEN OK ELSE ATTRIBUTE_NOT_SET

Resolved(t) ==
    /\ t.dim # <<>>
    /\ t.stride # <<>>
    /\ Len(t.dim) = Len(t.stride)
    /\ t.dtype # "NOT_SET"

\* every required output port holds a tensor and every bound output has its
\* shape, stride and data type resolved
validate_outputs(tbl, required, outputs) ==
    IF \E p \in required : ~Bound(tbl, p) THEN ATTRIBUTE_NOT_SET
    ELSE IF \E p \in outputs : Bound(tbl, p) /\ ~Resolved(tbl[p])
         THEN ATTRIBUTE_NOT_SET
         ELSE OK

---------------------------------------------------------------------------
(* Port names *)

FwdOutputs == {"O", "Stats", "RNG_DUMP"}

BwdOutputs == {"dQ", "dK", "dV", "dBias", "RNG_DUMP"}

DlnInputs == {"X", "DY", "SCALE", "MEAN", "INV_VARIANCE"}
DlnOutputs == {"DX", "DSCALE", "DBIAS"}

---------------------------------------------------------------------------
(* The checks shared by the two attention nodes *)

\* custom dropout mask together with a dropout probability
DropoutBoth_mut(tbl, a) == FALSE
DropoutBoth(tbl, a) == a.dropout_probability.has /\ Bound(tbl, "Dropout_mask")

\* dropout_probability.value() == 1.0 (the value is kept in percent)
DropoutIsOne(a) == a.dropout_probability.has /\ a.dropout_probability.val = 100

PaddingWithoutSeqLen(tbl, a) ==
    a.padding_mask /\ (~Bound(tbl, "SEQ_LEN_Q") \/ ~Bound(tbl, "SEQ_LEN_KV"))

SeqLenWithoutPadding_mut(tbl, a) == FALSE
SeqLenWithoutPadding(tbl, a) ==
    (~a.padding_mask) /\ (Bound(tbl, "SEQ_LEN_Q") \/ Bound(tbl, "SEQ_LEN_KV"))

AttnScaleBoth_mut(tbl, a) == FALSE
AttnScaleBoth(tbl, a) == Bound(tbl, "Attn_scale") /\ a.attn_scale_value.has

\* "less than 128", without the multiple-of-8 test
HiddenDimOk_mut(tbl) == tbl["Q"].dim[4] < MaxHiddenDim

HiddenDimOk(tbl) ==
    LET hidden_dim == tbl["Q"].dim[4]
    IN  (hidden_dim <= MaxHiddenDim) /\ (hidden_dim % HiddenDimMultiple = 0)

BiasIsBoolean_mut(tbl) == FALSE
BiasIsBoolean(tbl) == Bound(tbl, "Bias") /\ tbl["Bias"].dtype = "BOOLEAN"

---------------------------------------------------------------------------
(* ScaledDotProductFlashAttentionNode::pre_validate_node: the set of        *)
(* results the call can end with                                            *)

\* the checks without the one on the intermediate data type
Fwd_after_strides_mut(tbl, a, c) ==
    IF a.is_inference = "unset" THEN ATTRIBUTE_NOT_SET
    ELSE IF DropoutBoth(tbl, a) THEN ATTRIBUTE_NOT_SET
    ELSE IF DropoutIsOne(a) THEN ATTRIBUTE_NOT_SET
    ELSE IF PaddingWithoutSeqLen(tbl, a) THEN ATTRIBUTE_NOT_SET
    ELSE IF SeqLenWithoutPadding(tbl, a) THEN ATTRIBUTE_NOT_SET
    ELSE IF AttnScaleBoth(tbl, a) THEN ATTRIBUTE_NOT_SET
    ELSE IF ~HiddenDimOk(tbl) THEN GRAPH_NOT_SUPPORTED
    ELSE IF BiasIsBoolean(tbl) THEN GRAPH_NOT_SUPPORTED
    ELSE validate_inputs(tbl, {"Q", "K", "V"})

Fwd_after_strides(tbl, a, c) ==
    IF a.is_inference = "unset" THEN ATTRIBUTE_NOT_SET
    ELSE IF DropoutBoth(tbl, a) THEN ATTRIBUTE_NOT_SET
    ELSE IF DropoutIsOne(a) THEN ATTRIBUTE_NOT_SET
    ELSE IF c.intermediate_data_type = "NOT_SET" THEN ATTRIBUTE_NOT_SET
    ELSE IF PaddingWithoutSeqLen(tbl, a) THEN ATTRIBUTE_NOT_SET
    ELSE IF SeqLenWithoutPadding(tbl, a) THEN ATTRIBUTE_NOT_SET
    ELSE IF AttnScaleBoth(tbl, a) THEN ATTRIBUTE_NOT_SET
    ELSE IF ~HiddenDimOk(tbl) THEN GRAPH_NOT_SUPPORTED
    ELSE IF BiasIsBoolean(tbl) THEN GRAPH_NOT_SUPPORTED
    ELSE validate_inputs(tbl, {"Q", "K", "V"})

Fwd_pre_validate_node(tbl, a, c) ==
    IF \E p \in {"Q", "K", "V", "O"} : ~Bound(tbl, p) THEN {ATTRIBUTE_NOT_SET}
    ELSE LET ts == <<tbl["Q"], tbl["K"], tbl["V"]>>
             chk == StrideCheckSeq([i \in 1..3 |-> BackReads(ts[i])],
                                   [i \in 1..3 |-> StrideUnset(ts[i])])
         IN  (chk \ {"pass"})
             \cup (IF "pass" \in chk THEN {Fwd_after_strides(tbl, a, c)} ELSE {})

---------------------------------------------------------------------------
(* ScaledDotProductFlashAttentionBackwardNode::pre_validate_node *)

BwdRequired == {"Q", "K", "V", "O", "dO", "Stats", "dQ", "dK", "dV"}

Bwd_after_strides(tbl, a, c) ==
    IF DropoutBoth(tbl, a) THEN ATTRIBUTE_NOT_SET
    ELSE IF DropoutIsOne(a) THEN ATTRIBUTE_NOT_SET
    ELSE IF PaddingWithoutSeqLen(tbl, a) THEN ATTRIBUTE_NOT_SET
    ELSE IF SeqLenWithoutPadding(tbl, a) THEN ATTRIBUTE_NOT_SET
    ELSE IF AttnScaleBoth(tbl, a) THEN ATTRIBUTE_NOT_SET
    ELSE IF c.intermediate_data_type = "NOT_SET" THEN ATTRIBUTE_NOT_SET
    ELSE IF ~HiddenDimOk(tbl) THEN GRAPH_NOT_SUPPORTED
    ELSE IF BiasIsBoolean(tbl) THEN GRAPH_NOT_SUPPORTED
    ELSE validate_inputs(tbl, {"Q", "K", "V", "O", "dO", "Stats"})

\* the tensors whose stride().back() the backward node reads, in order
BwdStrideOrder == <<"Q", "K", "V", "O", "Stats", "Stats", "dQ", "dK", "dV", "dO">>

Bwd_pre_validate_node(tbl, a, c) ==
    IF \E p \in BwdRequired : ~Bound(tbl, p) THEN {ATTRIBUTE_NOT_SET}
    ELSE LET n == Len(BwdStrideOrder)
             rd(i) == IF i = 6 THEN Back2Reads(tbl["Stats"])
                      ELSE BackReads(tbl[BwdStrideOrder[i]])
             ft(i) == IF i = 6 THEN Len(tbl["Stats"].stride) < 2
                      ELSE StrideUnset(tbl[BwdStrideOrder[i]])
             chk == StrideCheck([i \in 1..n |-> rd(i)], [i \in 1..n |-> ft(i)])
         IN  (chk \ {"pass"})
             \cup (IF "pass" \in chk THEN {Bwd_after_strides(tbl, a, c)} ELSE {})

---------------------------------------------------------------------------
(* DLNNode::pre_validate_node *)

DlnRequiredInputs == {"X", "DY", "SCALE", "MEAN", "INV_VARIANCE"}

DLN_pre_validate_node(tbl) == {validate_inputs(tbl, DlnRequiredInputs)}

---------------------------------------------------------------------------
(* Sub nodes.  A sub node records the helper that made it (op), its mode,  *)
(* the handles of its operands and results, and the attributes the         *)
(* composite sets on it.                                                   *)

SubNode(name, op, mode, ins, outs) ==
    [name |-> name, op |-> op, mode |-> mode, ins |-> ins, outs |-> outs,
     axis |-> -1, cdt |-> "NOT_SET", m |-> NULL, n |-> NULL, k |-> NULL,
     prob |-> -1]

\* the running state of an expansion: the descriptors, the sub nodes, the
\* node's members and size fields, last_output, use_workspace_opt, the
\* runtime calls issued, and the error the method has ended with, if any
Exp(tbl, ch, m, sz) ==
    [T |-> tbl, ch |-> ch, mem |-> m, sizes |-> sz, last |-> NULL, opt |-> FALSE,
     calls |-> <<>>, err |-> OK]

\* a functional-style helper call: a fresh virtual result, a new sub node
Emit(s, node) ==
    [s EXCEPT !.T = (node.outs[1] :> VirtualTensor) @@ s.T,
              !.ch = Append(s.ch, node)]

\* the call with the result descriptor provided by the caller
EmitTo(s, node) == [s EXCEPT !.ch = Append(s.ch, node)]

\* a descriptor stored under a handle (a make_shared, or a setter chain)
Put(s, h, t) == [s EXCEPT !.T = (h :> t) @@ s.T]

SetLast(s, h) == [s EXCEPT !.last = h]

ScalarTensor(dtype) == Tensor(<<1, 1, 1, 1>>, <<1, 1, 1, 1>>, dtype, FALSE, TRUE)

\* Tensor_attributes::fill_from_context over the bound ports
fill_from_context(tbl, c) ==
    [h \in DOMAIN tbl |->
        IF tbl[h].dtype = "NOT_SET"
        THEN [tbl[h] EXCEPT !.dtype = IF tbl[h].virt THEN c.intermediate_data_type
                                       ELSE c.io_data_type]
        ELSE tbl[h]]

\* the shape locals gathered at the top of an attention expansion
GatherDims(tbl) ==
    [b |-> tbl["Q"].dim[1], h |-> tbl["Q"].dim[2], s_q |-> tbl["Q"].dim[3],
     d |-> tbl["Q"].dim[4], s_kv |-> tbl["K"].dim[3], d_v |-> tbl["V"].dim[4]]

\* K -> KT (and V -> VT): dims 2 and 3 of shape and stride swapped in place
Transpose(tbl, h) ==
    [tbl EXCEPT ![h].dim = Swap23(@), ![h].stride = Swap23(@)]

ScoreDim(dm) == <<dm.b, dm.h, dm.s_q, dm.s_kv>>
ScoreStride(dm) == <<dm.h * dm.s_q * dm.s_kv, dm.s_q * dm.s_kv, dm.s_kv, 1>>

---------------------------------------------------------------------------
(* ScaledDotProductFlashAttentionNode::expand_and_infer_properties, one    *)
(* operator per block of the method                                        *)

Fwd_bmm1(s, dm) ==
    LET node == [SubNode("bmm1", "matmul", "MATMUL", <<"Q", "K">>, <<"bmm1::C">>)
                    EXCEPT !.m = Port(s.T, "SEQ_LEN_Q"), !.n = Port(s.T, "SEQ_LEN_KV")]
        s1 == Emit(s, node)
        s2 == Put(s1, "bmm1::C",
                  [VirtualTensor EXCEPT !.dim = ScoreDim(dm), !.stride = ScoreStride(dm)])
    IN  SetLast(s2, "bmm1::C")

Fwd_attn_scale(s, a) ==
    LET s1 == IF a.attn_scale_value.has
              THEN Put(s, "Attn_scale", ScalarTensor("FLOAT"))
              ELSE s
    IN  IF Bound(s1.T, "Attn_scale")
        THEN SetLast(Emit(s1, SubNode("attn_scale", "pointwise", "MUL",
                                      <<s1.last, "Attn_scale">>, <<"attn_scale::OUT_0">>)),
                     "attn_scale::OUT_0")
        ELSE s1

Fwd_bias(s) ==
    IF Bound(s.T, "Bias")
    THEN SetLast(Emit(s, SubNode("bias", "pointwise", "ADD",
                                 <<s.last, "Bias">>, <<"bias::OUT_0">>)),
                 "bias::OUT_0")
    ELSE s

\* a GEN_INDEX pointwise whose compute and output data types are set to INT32
GenIndexInt32(s, name, out, axis) ==
    LET node == [SubNode(name, "pointwise", "GEN_INDEX", <<s.last>>, <<out>>)
                    EXCEPT !.axis = axis, !.cdt = "INT32"]
    IN  Put(Emit(s, node), out, [VirtualTensor EXCEPT !.dtype = "INT32"])

\* a binary pointwise with a compute data type, its result typed alike
TypedBinary(s, name, mode, ins, out, cdt, odt) ==
    LET node == [SubNode(name, "pointwise", mode, ins, <<out>>) EXCEPT !.cdt = cdt]
    IN  Put(Emit(s, node), out, [VirtualTensor EXCEPT !.dtype = odt])

Fwd_alibi(s, a, dm) ==
    IF ~a.alibi_mask THEN s
    ELSE
    LET s1 == GenIndexInt32(s, "gen_row_index", "alibi.gen_row_index::OUT_0", 2)
        s2 == GenIndexInt32(s1, "gen_col_index", "alibi.gen_col_index::OUT_0", 3)
        s3 == TypedBinary(s2, "sub", "SUB",
                          <<"alibi.gen_col_index::OUT_0", "alibi.gen_row_index::OUT_0">>,
                          "alibi.sub::OUT_0", "INT32", "INT32")
        s4 == [Put(s3, "alibi_slopes",
                   Tensor(<<1, dm.h, 1, 1>>, <<dm.h, 1, 1, 1>>, "FLOAT", FALSE, FALSE))
                 EXCEPT !.mem.alibi_slopes = "alibi_slopes"]
        s5 == Emit(s4, SubNode("mul", "pointwise", "MUL",
                               <<"alibi.sub::OUT_0", "alibi_slopes">>, <<"alibi.mul::OUT_0">>))
        s6 == Emit(s5, SubNode("add", "pointwise", "ADD",
                               <<s5.last, "alibi.mul::OUT_0">>, <<"alibi.add::OUT_0">>))
    IN  SetLast(s6, "alibi.add::OUT_0")

Fwd_padding(s, a) ==
    IF ~a.padding_mask THEN s
    ELSE
    LET s1 == GenIndexInt32(s, "gen_row_index", "padding.gen_row_index::OUT_0", 2)
        s2 == GenIndexInt32(s1, "gen_col_index", "padding.gen_col_index::OUT_0", 3)
        s3 == TypedBinary(s2, "row_less_seq_q", "CMP_LT",
                          <<"padding.gen_row_index::OUT_0", Port(s2.T, "SEQ_LEN_Q")>>,
                          "padding.row_less_seq_q::OUT_0", "INT32", "INT32")
        s4 == TypedBinary(s3, "col_less_seq_kv", "CMP_LT",
                          <<"padding.gen_col_index::OUT_0", Port(s3.T, "SEQ_LEN_KV")>>,
                          "padding.col_less_seq_kv::OUT_0", "INT32", "INT32")
        s5 == TypedBinary(s4, "logical_and", "LOGICAL_AND",
                          <<"padding.row_less_seq_q::OUT_0", "padding.col_less_seq_kv::OUT_0">>,
                          "padding.logical_and::OUT_0", "BOOLEAN", "BOOLEAN")
        s6 == [Put(s5, "negative_inf_padding", ScalarTensor("FLOAT"))
                 EXCEPT !.mem.negative_inf_padding = "negative_inf_padding"]
        s7 == Emit(s6, SubNode("binary_select", "pointwise", "BINARY_SELECT",
                               <<s6.last, "negative_inf_padding", "padding.logical_and::OUT_0">>,
                               <<"padding.binary_select::OUT_0">>))
    IN  SetLast(s7, "padding.binary_select::OUT_0")

\* the comparison with its operands exchanged (column >= row)
Fwd_causal_mut(s, a) ==
    IF ~a.causal_mask THEN s
    ELSE
    LET s1 == Emit(s, [SubNode("gen_row_index", "pointwise", "GEN_INDEX", <<s.last>>,
                               <<"causal.gen_row_index::OUT_0">>) EXCEPT !.axis = 2])
        s2 == Emit(s1, [SubNode("gen_col_index", "pointwise", "GEN_INDEX", <<s.last>>,
                                <<"causal.gen_col_index::OUT_0">>) EXCEPT !.axis = 3])
        s3 == TypedBinary(s2, "row_greater_than_col", "CMP_GE",
                          <<"causal.gen_col_index::OUT_0", "causal.gen_row_index::OUT_0">>,
                          "causal.row_greater_than_col::OUT_0", "BOOLEAN", "BOOLEAN")
        s4 == [Put(s3, "negative_inf_causal", ScalarTensor("FLOAT"))
                 EXCEPT !.mem.negative_inf_causal = "negative_inf_causal"]
        s5 == Emit(s4, SubNode("binary_select", "pointwise", "BINARY_SELECT",
                               <<s4.last, "negative_inf_causal",
                                 "causal.row_greater_than_col::OUT_0">>,
                               <<"causal.binary_select::OUT_0">>))
    IN  SetLast(s5, "causal.binary_select::OUT_0")

Fwd_causal(s, a) ==
    IF ~a.causal_mask THEN s
    ELSE
    LET s1 == Emit(s, [SubNode("gen_row_index", "pointwise", "GEN_INDEX", <<s.last>>,
                               <<"causal.gen_row_index::OUT_0">>) EXCEPT !.axis = 2])
        s2 == Emit(s1, [SubNode("gen_col_index", "pointwise", "GEN_INDEX", <<s.last>>,
                                <<"causal.gen_col_index::OUT_0">>) EXCEPT !.axis = 3])
        s3 == TypedBinary(s2, "row_greater_than_col", "CMP_GE",
                          <<"causal.gen_row_index::OUT_0", "causal.gen_col_index::OUT_0">>,
                          "causal.row_greater_than_col::OUT_0", "BOOLEAN", "BOOLEAN")
        s4 == [Put(s3, "negative_inf_causal", ScalarTensor("FLOAT"))
                 EXCEPT !.mem.negative_inf_causal = "negative_inf_causal"]
        s5 == Emit(s4, SubNode("binary_select", "pointwise", "BINARY_SELECT",
                               <<s4.last, "negative_inf_causal",
                                 "causal.row_greater_than_col::OUT_0">>,
                               <<"causal.binary_select::OUT_0">>))
    IN  SetLast(s5, "causal.binary_select::OUT_0")

\* the statistics descriptor handed to softmax
Fwd_softmax_stats_mut(s, a) == Port(s.T, "Stats")
Fwd_softmax_stats(s, a) ==
    IF a.is_inference = "true" THEN "softmax::Stats" ELSE Port(s.T, "Stats")

Fwd_softmax(s, a) ==
    LET stats == Fwd_softmax_stats(s, a)
        s1 == Put(s, "softmax::Y", VirtualTensor)
        s2 == IF a.is_inference = "true" THEN Put(s1, "softmax::Stats", VirtualTensor)
              ELSE s1
        s3 == EmitTo(s2, SubNode("softmax", "softmax", "SOFTMAX", <<s.last>>,
                                 <<"softmax::Y", stats>>))
    IN  SetLast(s3, "softmax::Y")
\* bool dropout_present
Fwd_dropout_present(s, a, c) ==
    IF a.dropout_probability.has
    THEN ~(c.version > VersionDropoutSkip /\ a.dropout_probability.val = 0)
    ELSE Bound(s.T, "Dropout_mask")

\* the data type of the dropout scale literal (CUDNN_VERSION < 8903)
Fwd_dropout_scale_type(s, c) ==
    IF c.version <= VersionDropoutSkip THEN s.T["Q"].dtype ELSE "FLOAT"

Fwd_dropout(s, a, c, dm) ==
    IF ~Fwd_dropout_present(s, a, c) THEN s
    ELSE
    LET dump == Bound(s.T, "RNG_DUMP")
        s0 == IF dump THEN [s EXCEPT !.mem.rng_output = "RNG_DUMP"] ELSE s
    IN  IF ~a.dropout_probability.has
        THEN \* dropout_probability.value() throws while the arguments of rng()
             \* are evaluated
             [s0 EXCEPT !.err = BAD_OPTIONAL_ACCESS]
        ELSE
        LET out == IF dump THEN "RNG_DUMP" ELSE "rng::Y"
            node == [SubNode("rng", "rng", "BERNOULLI",
                             <<Port(s.T, "Seed"), Port(s.T, "Offset")>>, <<out>>)
                        EXCEPT !.prob = 100 - a.dropout_probability.val]
            s1 == IF dump THEN EmitTo(s0, node)
                  ELSE [Put(Emit(s0, node), "rng::Y",
                            [VirtualTensor EXCEPT !.dim = ScoreDim(dm),
                                                  !.stride = ScoreStride(dm)])
                          EXCEPT !.mem.rng_output = "rng::Y"]
            s2 == SetLast(Emit(s1, SubNode("dropout_mask_mul", "pointwise", "MUL",
                                           <<s1.last, s1.mem.rng_output>>,
                                           <<"dropout_mask_mul::OUT_0">>)),
                          "dropout_mask_mul::OUT_0")
            s3 == [Put(s2, "dropout_scale", ScalarTensor(Fwd_dropout_scale_type(s, c)))
                     EXCEPT !.mem.dropout_scale = "dropout_scale"]
            s4 == Emit(s3, SubNode("dropout_scale", "pointwise", "MUL",
                                   <<s3.last, "dropout_scale">>, <<"dropout_scale::OUT_0">>))
        IN  SetLast(s4, "dropout_scale::OUT_0")

Fwd_bmm2(s) ==
    LET s1 == [s EXCEPT !.T[s.last].dtype = s.T["Q"].dtype]
        node == [SubNode("bmm2", "matmul", "MATMUL", <<s.last, "V">>, <<"O">>)
                    EXCEPT !.m = Port(s.T, "SEQ_LEN_Q"), !.k = Port(s.T, "SEQ_LEN_KV")]
    IN  EmitTo(s1, node)

\* the default shape stored over a declared one
Fwd_set_O_mut(s, dm) ==
    LET s1 == [s EXCEPT !.T["O"].dim = <<dm.b, dm.h, dm.s_q, dm.d_v>>]
        O_dim == s1.T["O"].dim
    IN  IF s1.T["O"].stride = <<>>
        THEN [s1 EXCEPT !.T["O"].stride =
                 <<O_dim[4] * O_dim[3] * O_dim[2], O_dim[4] * O_dim[3], O_dim[4], 1>>]
        ELSE s1

\* "Set dims if user did not"
Fwd_set_O(s, dm) ==
    LET s1 == IF s.T["O"].dim = <<>>
              THEN [s EXCEPT !.T["O"].dim = <<dm.b, dm.h, dm.s_q, dm.d_v>>]
              ELSE s
        O_dim == s1.T["O"].dim
    IN  IF s1.T["O"].stride = <<>>
        THEN [s1 EXCEPT !.T["O"].stride =
                 <<O_dim[4] * O_dim[3] * O_dim[2], O_dim[4] * O_dim[3], O_dim[4], 1>>]
        ELSE s1

\* the blocks in the order of the method
FwdBlocks_mut ==
    <<"bmm1", "attn_scale", "bias", "alibi", "causal", "padding", "softmax",
      "dropout", "bmm2", "set_O">>
FwdBlocks ==
    <<"bmm1", "attn_scale", "bias", "alibi", "padding", "causal", "softmax",
      "dropout", "bmm2", "set_O">>

Fwd_block(id, s, a, c, dm) ==
    CASE id = "bmm1" -> Fwd_bmm1(s, dm)
      [] id = "attn_scale" -> Fwd_attn_scale(s, a)
      [] id = "bias" -> Fwd_bias(s)
      [] id = "alibi" -> Fwd_alibi(s, a, dm)
      [] id = "padding" -> Fwd_padding(s, a)
      [] id = "causal" -> Fwd_causal(s, a)
      [] id = "softmax" -> Fwd_softmax(s, a)
      [] id = "dropout" -> Fwd_dropout(s, a, c, dm)
      [] id = "bmm2" -> Fwd_bmm2(s)
      [] id = "set_O" -> Fwd_set_O(s, dm)

\* blocks i.. run one after the other on s (each singleton set binds the
\* state a block leaves, by value); an exception skips what follows
RECURSIVE Fwd_run(_, _, _, _, _)
Fwd_run(i, s, a, c, dm) ==
    IF i > Len(FwdBlocks) \/ s.err # OK THEN s
    ELSE CHOOSE r \in {Fwd_run(i + 1, v, a, c, dm) :
                          v \in {Fwd_block(FwdBlocks[i], s, a, c, dm)}} : TRUE

Fwd_expand_and_infer_properties(tbl, ch, m, sz, a, c) ==
    CHOOSE r \in {Fwd_run(1, Exp(Transpose(t1, "K"), ch, m, sz), a, c, GatherDims(t1)) :
                     t1 \in {fill_from_context(tbl, c)}} : TRUE

---------------------------------------------------------------------------
(* The sub nodes' own inference, run by the driver on each sub node after  *)
(* the composite has created it: a result whose shape or stride is still   *)
(* unset takes it from the operands, an unset data type from the context.  *)

KnownDims(tbl, hs) ==
    {tbl[hs[i]].dim : i \in {j \in 1..Len(hs) : hs[j] \in DOMAIN tbl /\ tbl[hs[j]].dim # <<>>}}

BroadcastDim(ds) ==
    [i \in 1..4 |-> CHOOSE x \in {d[i] : d \in ds} : \A d \in ds : d[i] <= x]

InferShape(tbl, node) ==
    CASE node.op = "matmul" ->
            IF Cardinality(KnownDims(tbl, <<node.ins[1]>>)) = 1
               /\ Cardinality(KnownDims(tbl, <<node.ins[2]>>)) = 1
            THEN LET A == tbl[node.ins[1]].dim
                     B == tbl[node.ins[2]].dim
                 IN  <<A[1], A[2], A[3], B[4]>>
            ELSE <<>>
      [] node.op = "pointwise" ->
            IF KnownDims(tbl, node.ins) # {} THEN BroadcastDim(KnownDims(tbl, node.ins))
            ELSE <<>>
      [] node.op = "softmax" ->
            IF KnownDims(tbl, node.ins) # {} THEN tbl[node.ins[1]].dim ELSE <<>>
      [] OTHER -> <<>>

InferOne(tbl, node, o, c) ==
    LET h == node.outs[o]
        shape == IF node.op = "softmax" /\ o = 2 /\ InferShape(tbl, node) # <<>>
                 THEN [InferShape(tbl, node) EXCEPT ![4] = 1]
                 ELSE InferShape(tbl, node)
        t0 == tbl[h]
        t1 == IF t0.dim = <<>> THEN [t0 EXCEPT !.dim = shape] ELSE t0
        t2 == IF t1.stride = <<>> /\ t1.dim # <<>>
              THEN [t1 EXCEPT !.stride = PackedStride(t1.dim)] ELSE t1
        t3 == IF t2.dtype = "NOT_SET"
              THEN [t2 EXCEPT !.dtype = IF t2.virt THEN c.intermediate_data_type
                                         ELSE c.io_data_type]
              ELSE t2
    IN  IF h \in DOMAIN tbl THEN [tbl EXCEPT ![h] = t3] ELSE tbl

InferNode(tbl, node, c) ==
    LET t1 == InferOne(tbl, node, 1, c)
    IN  IF Len(node.outs) > 1 THEN InferOne(t1, node, 2, c) ELSE t1

RECURSIVE InferSubNodes(_, _, _, _)
InferSubNodes(tbl, ch, i, c) ==
    IF i > Len(ch) THEN tbl
    ELSE CHOOSE r \in {InferSubNodes(t, ch, i + 1, c) :
                          t \in {InferNode(tbl, ch[i], c)}} : TRUE

---------------------------------------------------------------------------
(* ScaledDotProductFlashAttentionNode: post_validate_node,                 *)
(* get_fe_workspace_size_node, pass_by_value_tensors_                      *)

Fwd_post_validate_node_mut(tbl) == {validate_outputs(tbl, {"O"}, FwdOutputs)}
Fwd_post_validate_node(tbl) ==
    LET chk == StrideCheckSeq(<<BackReads(tbl["O"])>>, <<StrideUnset(tbl["O"])>>)
    IN  (chk \ {"pass"})
        \cup (IF "pass" \in chk THEN {validate_outputs(tbl, {"O"}, FwdOutputs)} ELSE {})

Fwd_get_fe_workspace_size_node(tbl) == tbl["Q"].dim[2] * SizeofFloat

\* pass_by_values_t: a float or half scalar num/den, the lowest float, or a
\* pointer off bytes into the node's workspace
Scalar(k, num, den) == [kind |-> k, num |-> num, den |-> den]
Lowest == [kind |-> "float_lowest", num |-> 0, den |-> 1]
WorkspacePtr(off) == [kind |-> "ptr", num |-> off, den |-> 1]

\* unordered_map::emplace: an existing key keeps its value
Emplace(map, key, v) == IF key \in DOMAIN map THEN map ELSE (key :> v) @@ map

\* the running state of a materialisation
Mat(map, cs) == [map |-> map, calls |-> cs, off |-> 0, err |-> OK]

Call(op, off, len) == [op |-> op, off |-> off, len |-> len]

\* the binding recorded before the copy or fill is submitted
Upload_bind_first_mut(r, op, h, len, streamOk, opOk) ==
    LET r1 == [r EXCEPT !.calls = Append(@, Call("cudnnGetStream", 0, 0))]
        r2 == [r1 EXCEPT !.map = Emplace(@, h, WorkspacePtr(r.off))]
        r3 == [r2 EXCEPT !.calls = Append(@, Call(op, r.off, len))]
    IN  IF ~streamOk THEN [r1 EXCEPT !.err = CUDNN_BACKEND_API_FAILED]
        ELSE IF ~opOk THEN [r3 EXCEPT !.err = CUDA_API_FAILED]
        ELSE r3

\* the failed copy or fill issued a second time before the error return
Upload_mut(r, op, h, len, streamOk, opOk) ==
    LET r1 == [r EXCEPT !.calls = Append(@, Call("cudnnGetStream", 0, 0))]
        r2 == [r1 EXCEPT !.calls = Append(@, Call(op, r.off, len))]
        r3 == [r2 EXCEPT !.calls = Append(@, Call(op, r.off, len))]
    IN  IF ~streamOk THEN [r1 EXCEPT !.err = CUDNN_BACKEND_API_FAILED]
        ELSE IF ~opOk THEN [r3 EXCEPT !.err = CUDA_API_FAILED]
        ELSE [r2 EXCEPT !.map = Emplace(@, h, WorkspacePtr(r.off))]

\* cudnnGetStream, then the asynchronous copy or fill of len bytes at the
\* current workspace offset, then the binding of tensor h to that offset
Upload(r, op, h, len, streamOk, opOk) ==
    LET r1 == [r EXCEPT !.calls = Append(@, Call("cudnnGetStream", 0, 0))]
        r2 == [r1 EXCEPT !.calls = Append(@, Call(op, r.off, len))]
    IN  IF ~streamOk THEN [r1 EXCEPT !.err = CUDNN_BACKEND_API_FAILED]
        ELSE IF ~opOk THEN [r2 EXCEPT !.err = CUDA_API_FAILED]
        ELSE [r2 EXCEPT !.map = Emplace(@, h, WorkspacePtr(r.off))]

\* the dropout scale bound to 1 - p instead of 1 / (1 - p)
Fwd_pbv_dropout_mut(r, a, c, m) ==
    IF a.dropout_probability.has /\ a.dropout_probability.val # 0
    THEN [r EXCEPT !.map = Emplace(@, m.dropout_scale,
              Scalar(IF c.version <= VersionDropoutSkip THEN "half" ELSE "float",
                     100 - a.dropout_probability.val, 100))]
    ELSE r
Fwd_pbv_dropout(r, a, c, m) ==
    IF a.dropout_probability.has /\ a.dropout_probability.val # 0
    THEN [r EXCEPT !.map = Emplace(@, m.dropout_scale,
              Scalar(IF c.version <= VersionDropoutSkip THEN "half" ELSE "float",
                     100, 100 - a.dropout_probability.val))]
    ELSE r

Pbv_negative_inf(r, a, m) ==
    LET r1 == IF a.padding_mask
              THEN [r EXCEPT !.map = Emplace(@, m.negative_inf_padding, Lowest)] ELSE r
    IN  IF a.causal_mask
        THEN [r1 EXCEPT !.map = Emplace(@, m.negative_inf_causal, Lowest)] ELSE r1

Pbv_attn_scale(r, tbl, a) ==
    IF ~a.attn_scale_value.has THEN r
    ELSE IF ~Bound(tbl, "Attn_scale") THEN [r EXCEPT !.err = ATTRIBUTE_NOT_SET]
    ELSE [r EXCEPT !.map = Emplace(@, "Attn_scale",
                                   Scalar("float", a.attn_scale_value.val, 1))]

Fwd_pass_by_value_tensors_(tbl, a, c, m, map, cs, streamOk, copyOk) ==
    LET r1 == Fwd_pbv_dropout(Mat(map, cs), a, c, m)
        r2 == Pbv_negative_inf(r1, a, m)
        r3 == IF ~a.alibi_mask THEN r2
              ELSE IF ~Bound(tbl, "Q") THEN [r2 EXCEPT !.err = ATTRIBUTE_NOT_SET]
              ELSE Upload(r2, "cudaMemcpyAsync", m.alibi_slopes,
                          tbl["Q"].dim[2] * SizeofFloat, streamOk, copyOk)
    IN  IF r3.err # OK THEN r3 ELSE Pbv_attn_scale(r3, tbl, a)
---------------------------------------------------------------------------
(* ScaledDotProductFlashAttentionBackwardNode::expand_and_infer_properties *)

\* a functional-style pointwise call, its result becoming last_output
PW(s, name, mode, ins, out) ==
    SetLast(Emit(s, SubNode(name, "pointwise", mode, ins, <<out>>)), out)

SetShape(s, h, dim, stride) ==
    [s EXCEPT !.T[h].dim = dim, !.T[h].stride = stride]

\* "Initialize and create tensors before creating nodes"
Bwd_create_tensors(s, a, dm) ==
    LET one_tensor(x) ==
            [Put(x, "one_tensor", ScalarTensor("FLOAT"))
               EXCEPT !.mem.one_tensor = "one_tensor"]
        attn_scale(x) ==
            IF a.attn_scale_value.has
            THEN Put(x, "Attn_scale", ScalarTensor("FLOAT")) ELSE x
        alibi_slopes(x) ==
            IF a.alibi_mask
            THEN [Put(x, "alibi_slopes",
                      Tensor(<<1, dm.h, 1, 1>>, <<dm.h, dm.h, 1, 1>>, "FLOAT", FALSE, FALSE))
                    EXCEPT !.mem.alibi_slopes = "alibi_slopes",
                           !.sizes.alibi_slopes_size = dm.h * SizeofFloat]
            ELSE x
        negative_inf_padding(x) ==
            IF a.padding_mask
            THEN [Put(x, "negative_inf_padding", ScalarTensor("FLOAT"))
                    EXCEPT !.mem.negative_inf_padding = "negative_inf_padding"]
            ELSE x
        negative_inf_causal(x) ==
            IF a.causal_mask
            THEN [Put(x, "negative_inf_causal", ScalarTensor("FLOAT"))
                    EXCEPT !.mem.negative_inf_causal = "negative_inf_causal"]
            ELSE x
        dropout_scales(x) ==
            IF a.dropout_probability.has
            THEN Put(Put(x, "Dropout_scale", ScalarTensor("FLOAT")),
                     "Dropout_scale_inv", ScalarTensor("FLOAT"))
            ELSE x
    IN  dropout_scales(negative_inf_causal(negative_inf_padding(
            alibi_slopes(attn_scale(one_tensor(s))))))

\* ((x + 64 - 1) / 64) * 64
RoundUpTile(x) == ((x + WorkspaceTile - 1) \div WorkspaceTile) * WorkspaceTile

RequiredDpWorkspaceBytes(dm) ==
    dm.b * dm.h * RoundUpTile(dm.s_q) * RoundUpTile(dm.s_kv) * 2

\* the default, or CUDNN_FRONTEND_ATTN_DP_WORKSPACE_LIMIT read with stoll
MaxDpWorkspaceBytes(c) ==
    IF c.env_limit.set THEN c.env_limit.val ELSE DefaultDpWorkspaceBytes

WorkspaceOptSupported(c) == c.version >= VersionWorkspaceOpt /\ c.major >= HopperMajor

\* the three-way decision on max_dp_workspace_bytes
WithinLimit_mut(required, limit) ==
    IF limit = -1 THEN TRUE
    ELSE IF limit = 0 THEN FALSE
    ELSE required < limit
WithinLimit(required, limit) ==
    IF limit = -1 THEN TRUE
    ELSE IF limit = 0 THEN FALSE
    ELSE required <= limit

\* bool use_workspace_opt
UseWorkspaceOpt_mut(c, dm) ==
    WithinLimit(RequiredDpWorkspaceBytes(dm), MaxDpWorkspaceBytes(c))
UseWorkspaceOpt(c, dm) ==
    IF WorkspaceOptSupported(c)
    THEN WithinLimit(RequiredDpWorkspaceBytes(dm), MaxDpWorkspaceBytes(c))
    ELSE FALSE

\* "non-virtual dQ_accum is how the backend API signals workspace optimization"
Bwd_dQ_accum(s, dm) ==
    IF ~s.opt
    THEN [Put(s, "dQ_accum",
              Tensor(<<dm.b, dm.h, dm.s_q, dm.d>>,
                     <<dm.h * dm.s_q * dm.d, dm.s_q * dm.d, dm.d, 1>>,
                     "FLOAT", FALSE, FALSE))
            EXCEPT !.mem.dQ_accum = "dQ_accum",
                   !.sizes.dQ_accum_size = dm.b * dm.h * dm.s_q * dm.d * SizeofFloat]
    ELSE s

\* "RNG node"
Bwd_rng(s, a, dm) ==
    IF a.dropout_probability.has
    THEN LET dump == Bound(s.T, "RNG_DUMP")
             out == IF dump THEN "RNG_DUMP" ELSE "rng::Y"
             node == [SubNode("rng", "rng", "BERNOULLI",
                              <<Port(s.T, "Seed"), Port(s.T, "Offset")>>, <<out>>)
                         EXCEPT !.prob = 100 - a.dropout_probability.val]
         IN  IF dump THEN [EmitTo(s, node) EXCEPT !.mem.rng_output = "RNG_DUMP"]
             ELSE [SetShape(Emit(s, node), "rng::Y", ScoreDim(dm), ScoreStride(dm))
                     EXCEPT !.mem.rng_output = "rng::Y"]
    ELSE IF Bound(s.T, "Dropout_mask")
         THEN [s EXCEPT !.mem.rng_output = "Dropout_mask"]
         ELSE s

\* "dO * o => softmax_sum" chain
Bwd_softmax_sum(s, dm) ==
    LET mul_dO_O(x) ==
            SetShape(PW(x, "mul_dO_O", "MUL", <<"dO", "O">>, "mul_dO_O::OUT_0"),
                     "mul_dO_O::OUT_0", <<dm.b, dm.h, dm.s_q, dm.d>>,
                     <<dm.h * dm.s_q * dm.d, dm.s_q * dm.d, dm.h * dm.d, 1>>)
        reduce_dO_o(x) ==
            SetShape(SetLast(Emit(x, SubNode("reduce_dO_o", "reduction", "ADD",
                                             <<x.last>>, <<"reduce_dO_o::Y">>)),
                             "reduce_dO_o::Y"),
                     "reduce_dO_o::Y", <<dm.b, dm.h, dm.s_q, 1>>,
                     <<dm.h * dm.s_q, dm.s_q, 1, 1>>)
        scale_dropout_inv(x) ==
            PW(x, "scale_dropout_inv", "MUL",
               <<x.last, IF Bound(x.T, "Dropout_scale_inv")
                         THEN "Dropout_scale_inv" ELSE x.mem.one_tensor>>,
               "scale_dropout_inv::OUT_0")
        softmax_sum(x) == [x EXCEPT !.mem.softmax_sum = x.last]
    IN  softmax_sum(scale_dropout_inv(reduce_dO_o(mul_dO_O(s))))

\* matmul_Q_KT and the optional scale and bias
Bwd_scores(s, dm) ==
    LET node == [SubNode("matmul_Q_KT", "matmul", "MATMUL", <<"Q", "K">>,
                         <<"matmul_Q_KT::C">>)
                    EXCEPT !.m = Port(s.T, "SEQ_LEN_Q"), !.n = Port(s.T, "SEQ_LEN_KV")]
        matmul_Q_KT(x) ==
            SetShape(SetLast(Emit(x, node), "matmul_Q_KT::C"),
                     "matmul_Q_KT::C", ScoreDim(dm), ScoreStride(dm))
        mul_s_attn_scale(x) ==
            IF Bound(x.T, "Attn_scale")
            THEN PW(x, "mul_s_attn_scale", "MUL", <<x.last, "Attn_scale">>,
                    "mul_s_attn_scale::OUT_0")
            ELSE x
        add_bias(x) ==
            IF Bound(x.T, "Bias")
            THEN PW(x, "add_bias", "ADD", <<x.last, "Bias">>, "add_bias::OUT_0")
            ELSE x
    IN  add_bias(mul_s_attn_scale(matmul_Q_KT(s)))

Bwd_alibi(s, a) ==
    LET gen_row_idx_alibi(x) ==
            GenIndexInt32(x, "gen_row_idx_alibi", "gen_row_idx_alibi::OUT_0", 2)
        gen_col_idx_alibi(x) ==
            GenIndexInt32(x, "gen_col_idx_alibi", "gen_col_idx_alibi::OUT_0", 3)
        sub_col_row_alibi(x) ==
            TypedBinary(x, "sub_col_row_alibi", "SUB",
                        <<"gen_col_idx_alibi::OUT_0", "gen_row_idx_alibi::OUT_0">>,
                        "sub_col_row_alibi::OUT_0", "INT32", "INT32")
        mul_slope_alibi(x) ==
            Emit(x, SubNode("mul_slope_alibi", "pointwise", "MUL",
                            <<"sub_col_row_alibi::OUT_0", x.mem.alibi_slopes>>,
                            <<"mul_slope_alibi::OUT_0">>))
        add_alibi(x) ==
            PW(x, "add_alibi", "ADD", <<x.last, "mul_slope_alibi::OUT_0">>,
               "add_alibi::OUT_0")
    IN  IF ~a.alibi_mask THEN s
        ELSE add_alibi(mul_slope_alibi(sub_col_row_alibi(
                 gen_col_idx_alibi(gen_row_idx_alibi(s)))))

Bwd_padding(s, a) ==
    LET gen_row_idx_padding(x) ==
            GenIndexInt32(x, "gen_row_idx_padding", "gen_row_idx_padding::OUT_0", 2)
        gen_col_idx_padding(x) ==
            GenIndexInt32(x, "gen_col_idx_padding", "gen_col_idx_padding::OUT_0", 3)
        lt_row_sq_padding(x) ==
            TypedBinary(x, "lt_row_sq_padding", "CMP_LT",
                        <<"gen_row_idx_padding::OUT_0", Port(s.T, "SEQ_LEN_Q")>>,
                        "lt_row_sq_padding::OUT_0", "BOOLEAN", "BOOLEAN")
        lt_col_skv_padding(x) ==
            TypedBinary(x, "lt_col_skv_padding", "CMP_LT",
                        <<"gen_col_idx_padding::OUT_0", Port(s.T, "SEQ_LEN_KV")>>,
                        "lt_col_skv_padding::OUT_0", "BOOLEAN", "BOOLEAN")
        and_row_col_padding(x) ==
            TypedBinary(x, "and_row_col_padding", "LOGICAL_AND",
                        <<"lt_row_sq_padding::OUT_0", "lt_col_skv_padding::OUT_0">>,
                        "and_row_col_padding::OUT_0", "BOOLEAN", "BOOLEAN")
        select_padding(x) ==
            PW(x, "select_padding", "BINARY_SELECT",
               <<x.last, x.mem.negative_inf_padding, "and_row_col_padding::OUT_0">>,
               "select_padding::OUT_0")
    IN  IF ~a.padding_mask THEN s
        ELSE select_padding(and_row_col_padding(lt_col_skv_padding(
                 lt_row_sq_padding(gen_col_idx_padding(gen_row_idx_padding(s))))))

Bwd_causal(s, a) ==
    LET gen_row_idx_causal(x) ==
            GenIndexInt32(x, "gen_row_idx_causal", "gen_row_idx_causal::OUT_0", 2)
        gen_col_idx_causal(x) ==
            GenIndexInt32(x, "gen_col_idx_causal", "gen_col_idx_causal::OUT_0", 3)
        gt_row_col_causal(x) ==
            TypedBinary(x, "gt_row_col_causal", "CMP_GE",
                        <<"gen_row_idx_causal::OUT_0", "gen_col_idx_causal::OUT_0">>,
                        "gt_row_col_causal::OUT_0", "BOOLEAN", "BOOLEAN")
        select_causal(x) ==
            PW(x, "select_causal", "BINARY_SELECT",
               <<x.last, x.mem.negative_inf_causal, "gt_row_col_causal::OUT_0">>,
               "select_causal::OUT_0")
    IN  IF ~a.causal_mask THEN s
        ELSE select_causal(gt_row_col_causal(gen_col_idx_causal(gen_row_idx_causal(s))))

\* is_dropout_prob || is_dropout_mask
Bwd_has_dropout(s, a) == a.dropout_probability.has \/ Bound(s.T, "Dropout_mask")

\* sub_s_m, exp_s, the dropout of P, reshape_p and matmul_pT_dO
Bwd_dV(s, a, c, dm) ==
    LET sub_s_m(x) ==
            PW(x, "sub_s_m", "SUB", <<x.last, Port(x.T, "Stats")>>, "sub_s_m::OUT_0")
        exp_s(x) == PW(x, "exp_s", "EXP", <<x.last>>, "exp_s::OUT_0")
        mul_p_dropout_mask(x) ==
            IF Bwd_has_dropout(x, a)
            THEN PW(x, "mul_p_dropout_mask", "MUL", <<x.last, x.mem.rng_output>>,
                    "mul_p_dropout_mask::OUT_0")
            ELSE x
        mul_p_dropout_scale(x) ==
            IF Bound(x.T, "Dropout_scale")
            THEN PW(x, "mul_p_dropout_scale", "MUL", <<x.last, "Dropout_scale">>,
                    "mul_p_dropout_scale::OUT_0")
            ELSE x
        reshape_p(x) ==
            [SetShape(SetLast(Emit(x, SubNode("reshape_p", "reshape", "RESHAPE",
                                              <<x.last>>, <<"reshape_p::Y">>)),
                              "reshape_p::Y"),
                      "reshape_p::Y", <<dm.b, dm.h, dm.s_kv, dm.s_q>>,
                      <<dm.h * dm.s_q * dm.s_kv, dm.s_q * dm.s_kv, 1, dm.s_kv>>)
               EXCEPT !.T["reshape_p::Y"].dtype = c.io_data_type]
        matmul_pT_dO(x) ==
            EmitTo(x, [SubNode("matmul_pT_dO", "matmul", "MATMUL", <<x.last, "dO">>,
                               <<Port(s.T, "dV")>>)
                          EXCEPT !.m = Port(s.T, "SEQ_LEN_KV"),
                                 !.k = Port(s.T, "SEQ_LEN_Q")])
    IN  matmul_pT_dO(reshape_p(mul_p_dropout_scale(mul_p_dropout_mask(
            exp_s(sub_s_m(s))))))

\* "dO @ VT => dS_output => dK" chain; exp_s is the handle of exp_s_output
Bwd_dK(s, a, c, dm) ==
    LET matmul_dO_VT(x) ==
            SetShape(
                SetLast(Emit(x, [SubNode("matmul_dO_VT", "matmul", "MATMUL",
                                         <<"dO", "V">>, <<"matmul_dO_VT::C">>)
                                    EXCEPT !.m = Port(s.T, "SEQ_LEN_Q"),
                                           !.k = Port(s.T, "SEQ_LEN_KV")]),
                        "matmul_dO_VT::C"),
                "matmul_dO_VT::C", ScoreDim(dm), ScoreStride(dm))
        dP_dropout_mask(x) ==
            PW(x, "dP_dropout_mask", "MUL",
               <<x.last, IF Bwd_has_dropout(x, a) THEN x.mem.rng_output
                         ELSE x.mem.one_tensor>>,
               "dP_dropout_mask::OUT_0")
        sub_dP_softmax_sum(x) ==
            PW(x, "sub_dP_softmax_sum", "SUB", <<x.last, x.mem.softmax_sum>>,
               "sub_dP_softmax_sum::OUT_0")
        mul_dP_exp_s(x) ==
            PW(x, "mul_dP_exp_s", "MUL", <<x.last, "exp_s::OUT_0">>,
               "mul_dP_exp_s::OUT_0")
        mul_dS_dropout_scale(x) ==
            IF Bound(x.T, "Dropout_scale")
            THEN PW(x, "mul_dS_dropout_scale", "MUL", <<x.last, "Dropout_scale">>,
                    "mul_dS_dropout_scale::OUT_0")
            ELSE x
        red_dP_dBias(x) ==
            IF Bound(x.T, "dBias")
            THEN EmitTo(x, SubNode("red_dP_dBias", "reduction", "ADD",
                                   <<x.last>>, <<"dBias">>))
            ELSE x
        mul_dS_attn_scale(x) ==
            IF Bound(x.T, "Attn_scale")
            THEN PW(x, "mul_dS_attn_scale", "MUL", <<x.last, "Attn_scale">>,
                    "mul_dS_attn_scale::OUT_0")
            ELSE x
        reshape_dS(x) ==
            [SetShape(SetLast(Emit(x, SubNode("reshape_dS", "reshape", "RESHAPE",
                                              <<x.last>>, <<"reshape_dS::Y">>)),
                              "reshape_dS::Y"),
                      "reshape_dS::Y", <<dm.b, dm.h, dm.s_kv, dm.s_q>>,
                      <<dm.h * dm.s_q * dm.s_kv, dm.s_q * dm.s_kv, 1, dm.s_kv>>)
               EXCEPT !.T["reshape_dS::Y"].dtype = c.io_data_type]
        \* the matmul does not move last_output, which stays dS_output
        matmul_dST_Q(x, dS_output) ==
            [EmitTo(x, [SubNode("matmul_dST_Q", "matmul", "MATMUL", <<x.last, "Q">>,
                                <<Port(s.T, "dK")>>)
                           EXCEPT !.m = Port(s.T, "SEQ_LEN_KV"),
                                  !.k = Port(s.T, "SEQ_LEN_Q")])
               EXCEPT !.last = dS_output]
        dK(x) == matmul_dST_Q(reshape_dS(x), x.last)
    IN  dK(mul_dS_attn_scale(red_dP_dBias(mul_dS_dropout_scale(mul_dP_exp_s(
            sub_dP_softmax_sum(dP_dropout_mask(matmul_dO_VT(s))))))))

\* the destination of matmul_dS_K
\* the matmul writing into the caller's dQ whatever the accumulator
Bwd_dQ_target_mut(s) == Port(s.T, "dQ")

Bwd_dQ_target(s) == IF s.mem.dQ_accum # NULL THEN s.mem.dQ_accum ELSE Port(s.T, "dQ")

\* "dp_scaled @ K => dQ" chain; on entry last_output is dS_output
Bwd_dQ(s) ==
    LET dS_output == s.last
        kt_dim == s.T["K"].dim
        kt_stride == s.T["K"].stride
        reshape_k(x) ==
            SetShape(SetLast(Emit(x, SubNode("reshape_k", "reshape", "RESHAPE",
                                             <<"K">>, <<"reshape_k::Y">>)),
                             "reshape_k::Y"),
                     "reshape_k::Y",
                     <<kt_dim[1], kt_dim[2], kt_dim[4], kt_dim[3]>>,
                     <<kt_stride[1], kt_stride[2], kt_stride[4], kt_stride[3]>>)
        matmul_dS_K(x) ==
            EmitTo(x, [SubNode("matmul_dS_K", "matmul", "MATMUL", <<dS_output, x.last>>,
                               <<Bwd_dQ_target(s)>>)
                          EXCEPT !.m = Port(s.T, "SEQ_LEN_Q"),
                                 !.k = Port(s.T, "SEQ_LEN_KV")])
        identity_dQ(x) ==
            IF s.mem.dQ_accum # NULL
            THEN EmitTo(x, SubNode("identity_dQ", "pointwise", "IDENTITY",
                                   <<s.mem.dQ_accum>>, <<Port(s.T, "dQ")>>))
            ELSE x
    IN  identity_dQ(matmul_dS_K(reshape_k(s)))

\* "non-virtual softmax_sum is required for below cuDNN 8.9.5"
Bwd_softmax_sum_workaround(s, c, dm) ==
    IF c.version < VersionWorkspaceOpt
    THEN [s EXCEPT !.T[s.mem.softmax_sum].virt = FALSE,
                   !.T[s.mem.softmax_sum].dim = <<dm.b, dm.h, dm.s_q, 1>>,
                   !.T[s.mem.softmax_sum].dtype = "FLOAT",
                   !.sizes.softmax_sum_size = dm.b * dm.h * dm.s_q * SizeofFloat]
    ELSE s

\* cudaGetDeviceProperties, the environment, and the decision
Bwd_workspace_opt(s, c, dm, devPropOk) ==
    LET queried(x) ==
            [x EXCEPT !.calls = Append(@, Call("cudaGetDeviceProperties", 0, 0))]
        decided(x) ==
            IF ~devPropOk THEN [x EXCEPT !.err = CUDA_API_FAILED]
            ELSE IF WorkspaceOptSupported(c) /\ c.env_limit.set /\ ~c.env_limit.valid
                 THEN [x EXCEPT !.err = ATTRIBUTE_NOT_SET]
                 ELSE [x EXCEPT !.opt = UseWorkspaceOpt(c, dm)]
    IN  decided(queried(s))

\* the blocks in the order of the method
BwdBlocks ==
    <<"create_tensors", "workspace_opt", "dQ_accum", "rng", "softmax_sum", "scores",
      "alibi", "padding", "causal", "dV", "dK", "dQ", "softmax_sum_workaround">>

Bwd_block(id, s, a, c, dm, devPropOk) ==
    CASE id = "create_tensors" -> Bwd_create_tensors(s, a, dm)
      [] id = "workspace_opt" -> Bwd_workspace_opt(s, c, dm, devPropOk)
      [] id = "dQ_accum" -> Bwd_dQ_accum(s, dm)
      [] id = "rng" -> Bwd_rng(s, a, dm)
      [] id = "softmax_sum" -> Bwd_softmax_sum(s, dm)
      [] id = "scores" -> Bwd_scores(s, dm)
      [] id = "alibi" -> Bwd_alibi(s, a)
      [] id = "padding" -> Bwd_padding(s, a)
      [] id = "causal" -> Bwd_causal(s, a)
      [] id = "dV" -> Bwd_dV(s, a, c, dm)
      [] id = "dK" -> Bwd_dK(s, a, c, dm)
      [] id = "dQ" -> Bwd_dQ(s)
      [] id = "softmax_sum_workaround" -> Bwd_softmax_sum_workaround(s, c, dm)

\* blocks i.. run one after the other on s; an error return skips what follows
RECURSIVE Bwd_run(_, _, _, _, _, _)
Bwd_run(i, s, a, c, dm, devPropOk) ==
    IF i > Len(BwdBlocks) \/ s.err # OK THEN s
    ELSE CHOOSE r \in {Bwd_run(i + 1, v, a, c, dm, devPropOk) :
                          v \in {Bwd_block(BwdBlocks[i], s, a, c, dm, devPropOk)}} : TRUE

\* the method.  devPropOk: whether cudaGetDeviceProperties succeeds.
Bwd_expand_and_infer_properties(tbl, ch, m, sz, a, c, devPropOk) ==
    CHOOSE r \in {Bwd_run(1, Exp(Transpose(Transpose(t1, "K"), "V"), ch, m, sz),
                           a, c, GatherDims(t1), devPropOk) :
                     t1 \in {fill_from_context(tbl, c)}} : TRUE

Bwd_post_validate_node(tbl) == {validate_outputs(tbl, {"dQ", "dK", "dV"}, BwdOutputs)}

Bwd_get_fe_workspace_size_node(sz) ==
    sz.alibi_slopes_size + sz.dQ_accum_size + sz.softmax_sum_size

Bwd_pbv_dropout(r, tbl, a) ==
    IF ~a.dropout_probability.has THEN r
    ELSE IF ~Bound(tbl, "Dropout_scale") THEN [r EXCEPT !.err = ATTRIBUTE_NOT_SET]
    ELSE LET r1 == [r EXCEPT !.map = Emplace(@, "Dropout_scale",
                        Scalar("float", 100, 100 - a.dropout_probability.val))]
         IN  IF ~Bound(tbl, "Dropout_scale_inv")
             THEN [r1 EXCEPT !.err = ATTRIBUTE_NOT_SET]
             ELSE [r1 EXCEPT !.map = Emplace(@, "Dropout_scale_inv",
                        Scalar("float", 100 - a.dropout_probability.val, 100))]

\* the workspace pointer left where it was
Advance_mut(r, n) == r

\* node_workspace = static_cast<char*>(node_workspace) + n
Advance(r, n) == [r EXCEPT !.off = @ + n]

Bwd_pass_by_value_tensors_(tbl, a, m, sz, map, cs, streamOk, copyOk, fillStreamOk, fillOk) ==
    LET r0 == Mat(map, cs)
        r1 == IF m.one_tensor # NULL
              THEN [r0 EXCEPT !.map = Emplace(@, m.one_tensor, Scalar("float", 1, 1))]
              ELSE r0
        r2 == Pbv_attn_scale(r1, tbl, a)
        r3 == IF r2.err # OK \/ ~a.alibi_mask THEN r2
              ELSE IF ~Bound(tbl, "Q") THEN [r2 EXCEPT !.err = ATTRIBUTE_NOT_SET]
              ELSE LET u == Upload(r2, "cudaMemcpyAsync", m.alibi_slopes,
                                   tbl["Q"].dim[2] * SizeofFloat, streamOk, copyOk)
                   IN  IF u.err # OK THEN u ELSE Advance(u, sz.alibi_slopes_size)
        r4 == IF r3.err # OK THEN r3 ELSE Bwd_pbv_dropout(Pbv_negative_inf(r3, a, m), tbl, a)
        r5 == IF r4.err # OK \/ m.dQ_accum = NULL THEN r4
              ELSE IF tbl[m.dQ_accum].virt THEN r4
              ELSE LET u == Upload(r4, "cudaMemsetAsync", m.dQ_accum,
                                   sz.dQ_accum_size, fillStreamOk, fillOk)
                   IN  IF u.err # OK THEN u ELSE Advance(u, sz.dQ_accum_size)
    IN  IF r5.err # OK \/ m.softmax_sum = NULL THEN r5
        ELSE IF tbl[m.softmax_sum].virt THEN r5
        ELSE [r5 EXCEPT !.map = Emplace(@, m.softmax_sum, WorkspacePtr(r5.off))]
---------------------------------------------------------------------------
(* DLNNode: expand_and_infer_properties, post_validate_node,               *)
(* pass_by_value_tensors_                                                  *)

NoMembers ==
    [rng_output |-> NULL, dropout_scale |-> NULL, negative_inf_causal |-> NULL,
     negative_inf_padding |-> NULL, alibi_slopes |-> NULL, one_tensor |-> NULL,
     dQ_accum |-> NULL, softmax_sum |-> NULL, epsilon |-> NULL]

NoSizes == [dQ_accum_size |-> 0, softmax_sum_size |-> 0, alibi_slopes_size |-> 0]

DLN_infer_mut(t, dim) == [t EXCEPT !.dim = dim, !.stride = NHWCStride(dim)]
\* "Only infer dims and strides if user did not set them"
DLN_infer(t, dim) ==
    LET t1 == IF t.dim = <<>> THEN [t EXCEPT !.dim = dim] ELSE t
    IN  IF t1.stride = <<>> THEN [t1 EXCEPT !.stride = NHWCStride(t1.dim)] ELSE t1

DLN_epsilon(s, c) ==
    IF c.version < VersionEpsilon
    THEN [Put(s, "epsilon", Tensor(<<1, 1, 1, 1>>, <<1, 1, 1, 1>>, "FLOAT", FALSE, TRUE))
            EXCEPT !.mem.epsilon = "epsilon"]
    ELSE s

DLN_expand_and_infer_properties(tbl, m, c) ==
    LET t1 == fill_from_context(tbl, c)
        x_tensor_dim == t1["X"].dim
        scale_bias_dim == [x_tensor_dim EXCEPT ![1] = 1]
        t2 == [t1 EXCEPT !["DY"] = DLN_infer(@, x_tensor_dim),
                         !["DX"] = DLN_infer(@, x_tensor_dim),
                         !["DSCALE"] = DLN_infer(@, scale_bias_dim),
                         !["DBIAS"] = DLN_infer(@, scale_bias_dim)]
    IN  DLN_epsilon(Exp(t2, <<>>, m, NoSizes), c)

DLN_post_validate_node(tbl) ==
    {validate_outputs(tbl, {"DX", "DSCALE", "DBIAS"}, DlnOutputs)}

DLN_pass_by_value_tensors_(m, map, cs) ==
    LET r == Mat(map, cs)
    IN  IF m.epsilon # NULL
        THEN [r EXCEPT !.map = Emplace(@, m.epsilon, Scalar("float", 0, 1))]
        ELSE r

---------------------------------------------------------------------------
(* The nodes a caller can build.  A node is described by a parameter       *)
(* record; AttrOf, CtxOf and GivenOf turn it into the attributes, the     *)
(* context and the bound tensor descriptors.                               *)

EnvUnset == [set |-> FALSE, valid |-> TRUE, val |-> 0]
EnvValue(v) == [set |-> TRUE, valid |-> TRUE, val |-> v]
EnvInvalid == [set |-> TRUE, valid |-> FALSE, val |-> 0]

Shape(b, h, s_q, s_kv, d) == [b |-> b, h |-> h, s_q |-> s_q, s_kv |-> s_kv, d |-> d]
BaseShape == Shape(1, 2, 3, 5, 8)

\* a caller-built descriptor: packed, its innermost stride replaced by inner;
\* inner = 0 leaves shape, stride and data type unset
Given(dim, inner, dtype) ==
    IF inner = 0 THEN NewTensor
    ELSE Tensor(dim, [PackedStride(dim) EXCEPT ![4] = inner], dtype, FALSE, FALSE)

StridedPorts ==
    {"Q", "K", "V", "O", "Stats", "Stats2", "dO", "dQ", "dK", "dV"}
AllOne == [p \in StridedPorts |-> 1]
Unsettable(k) == IF k = "sdpa_fwd" THEN {"O"} ELSE {"dQ", "dK", "dV"}
AllUnset(k) == [p \in StridedPorts |-> IF p \in Unsettable(k) THEN 0 ELSE 1]

BaseP ==
    [kind |-> "sdpa_fwd", drop |-> "none", scale |-> "none", bias |-> "none",
     alibi |-> FALSE, pad |-> "off", causal |-> FALSE, inf |-> "false",
     dump |-> FALSE, dbias |-> FALSE, user_scales |-> FALSE,
     ver |-> VersionWorkspaceOpt, major |-> HopperMajor, env |-> EnvUnset,
     idt |-> "FLOAT", sh |-> BaseShape, inner |-> AllOne, missing |-> {},
     dln |-> "none", dy |-> "nhwc", dv |-> 0, out |-> "inner", extra |-> {}]

AttrOf(p) ==
    [is_inference |-> p.inf,
     dropout_probability |->
        [has |-> p.drop \in {"p0", "p10", "p100", "both"},
         val |-> CASE p.drop = "p0" -> 0 [] p.drop = "p100" -> 100 [] OTHER -> 10],
     attn_scale_value |-> [has |-> p.scale \in {"value", "both"}, val |-> 2],
     alibi_mask |-> p.alibi,
     padding_mask |-> p.pad \in {"on", "on_nolen"},
     causal_mask |-> p.causal]

CtxOf(p) ==
    [version |-> p.ver, major |-> p.major, env_limit |-> p.env,
     intermediate_data_type |-> p.idt, io_data_type |-> "HALF"]

\* the optional ports the parameters bind
OptionalPorts(p) ==
    (IF p.scale \in {"tensor", "both"} THEN {"Attn_scale"} ELSE {})
    \cup (IF p.bias # "none" THEN {"Bias"} ELSE {})
    \cup (IF p.pad \in {"on", "off_len"} THEN {"SEQ_LEN_Q", "SEQ_LEN_KV"} ELSE {})
    \cup (IF p.drop \in {"p0", "p10", "p100", "both"} THEN {"Seed", "Offset"} ELSE {})
    \cup (IF p.drop \in {"mask", "both"} THEN {"Dropout_mask"} ELSE {})
    \cup (IF p.dump THEN {"RNG_DUMP"} ELSE {})
    \cup (IF p.kind = "sdpa_bwd" /\ p.dbias THEN {"dBias"} ELSE {})
    \cup (IF p.kind = "sdpa_bwd" /\ p.user_scales
          THEN {"Dropout_scale", "Dropout_scale_inv"} ELSE {})
    \cup (IF p.kind = "sdpa_fwd" /\ p.inf # "true" THEN {"Stats"} ELSE {})

RequiredPorts(p) ==
    IF p.kind = "sdpa_fwd" THEN {"Q", "K", "V", "O"} ELSE BwdRequired

AttnTensor(p, h) ==
    LET sh == p.sh
        q == <<sh.b, sh.h, sh.s_q, sh.d>>
        kv == <<sh.b, sh.h, sh.s_kv, sh.d>>
        score == <<sh.b, sh.h, sh.s_q, sh.s_kv>>
        one == <<1, 1, 1, 1>>
        stats == <<sh.b, sh.h, sh.s_q, 1>>
        d_v == IF p.dv = 0 THEN sh.d ELSE p.dv
    IN  CASE h = "O" /\ p.out = "dims" ->
                Tensor(<<sh.b, sh.h, sh.s_q, d_v>>, <<>>, "HALF", FALSE, FALSE)
          [] h = "O" /\ p.out = "wide" ->
                Tensor(<<sh.b, sh.h, sh.s_q, 2 * d_v>>, <<>>, "HALF", FALSE, FALSE)
          [] h \in {"O", "dO"} -> Given(<<sh.b, sh.h, sh.s_q, d_v>>, p.inner[h], "HALF")
          [] h \in {"V", "dV"} -> Given(<<sh.b, sh.h, sh.s_kv, d_v>>, p.inner[h], "HALF")
          [] h \in {"Q", "dQ"} -> Given(q, p.inner[h], "HALF")
          [] h \in {"K", "dK"} -> Given(kv, p.inner[h], "HALF")
          [] h = "Stats" ->
                Tensor(stats, <<sh.h * sh.s_q, sh.s_q, p.inner["Stats2"], p.inner["Stats"]>>,
                       "FLOAT", FALSE, FALSE)
          [] h = "Bias" ->
                Given(<<1, sh.h, sh.s_q, sh.s_kv>>, 1,
                      IF p.bias = "boolean" THEN "BOOLEAN" ELSE "HALF")
          [] h \in {"SEQ_LEN_Q", "SEQ_LEN_KV"} -> Given(<<sh.b, 1, 1, 1>>, 1, "INT32")
          [] h \in {"Seed", "Offset"} -> Given(one, 1, "INT64")
          [] h \in {"Dropout_mask", "RNG_DUMP"} -> Given(score, 1, "HALF")
          [] h = "dBias" -> Given(<<1, sh.h, sh.s_q, sh.s_kv>>, 1, "HALF")
          [] OTHER -> Given(one, 1, "FLOAT")

DlnDim == <<2, 4, 3, 5>>

\* p.dy, p.dln: how the caller declared DY and the outputs
DlnTensor(p, h) ==
    LET dim == IF h \in {"X", "DY", "DX"} THEN DlnDim
               ELSE IF h \in {"MEAN", "INV_VARIANCE"} THEN <<2, 1, 1, 1>>
               ELSE [DlnDim EXCEPT ![1] = 1]
        dtype == IF h \in {"X", "DY", "DX"} THEN "HALF" ELSE "FLOAT"
        declared == IF h \in {"X", "SCALE", "MEAN", "INV_VARIANCE"} THEN "nhwc"
                    ELSE IF h = "DY" THEN p.dy ELSE p.dln
    IN  CASE declared = "none" -> NewTensor
          [] declared = "dims" -> Tensor(dim, <<>>, "NOT_SET", FALSE, FALSE)
          [] declared = "flat" -> Tensor(<<1, dim[2], 1, 1>>, <<>>, dtype, FALSE, FALSE)
          [] declared = "packed" -> Tensor(dim, PackedStride(dim), dtype, FALSE, FALSE)
          [] OTHER -> Tensor(dim, NHWCStride(dim), dtype, FALSE, FALSE)

GivenOf(p) ==
    IF p.kind = "dln"
    THEN [h \in (DlnInputs \cup DlnOutputs) \ p.missing |-> DlnTensor(p, h)]
    ELSE [h \in ((RequiredPorts(p) \cup OptionalPorts(p)) \ p.missing) \cup p.extra |->
             AttnTensor(p, h)]

---------------------------------------------------------------------------
(* The families of nodes the model starts from *)

VersionsOf(k) ==
    CASE k = "sdpa_fwd" -> {VersionDropoutSkip, VersionDropoutSkip + 1}
      [] k = "sdpa_bwd" -> {VersionWorkspaceOpt - 1, VersionWorkspaceOpt}
      [] OTHER -> {VersionEpsilon - 1, VersionEpsilon}

\* the ports whose innermost stride a family varies
VariedPorts(k) ==
    IF k = "sdpa_fwd" THEN {"Q", "K", "V", "O", "Stats"} ELSE StridedPorts

\* innermost strides 1..MaxStride (0, unset, on the outputs that may be left
\* unset), at most MaxBad of them different from 1
Inners(k) ==
    UNION {{[q \in StridedPorts |-> IF q \in B THEN g[q] ELSE 1] :
               g \in {x \in [B -> (0..MaxStride) \ {1}] :
                         \A q \in B : x[q] = 0 => q \in Unsettable(k)}} :
           B \in {S \in SUBSET VariedPorts(k) : Cardinality(S) <= MaxBad}}

\* every combination of the optional features on well-formed ports
FeatureFamily(k) ==
    {[BaseP EXCEPT !.kind = k, !.drop = dr, !.scale = sc, !.bias = bi, !.alibi = al,
                   !.pad = pa, !.causal = ca, !.inf = fl[1], !.dump = fl[2],
                   !.dbias = fl[3], !.user_scales = (dr = "mask"), !.ver = ve] :
        dr \in {"none", "p0", "p10", "mask"}, sc \in {"none", "value", "tensor"},
        bi \in {"none", "float"}, al \in BOOLEAN, pa \in {"off", "on"},
        ca \in BOOLEAN, ve \in VersionsOf(k),
        fl \in IF k = "sdpa_fwd"
               THEN {<<i, d, FALSE>> : i \in {"true", "false"}, d \in BOOLEAN}
               ELSE {<<"false", d, d>> : d \in BOOLEAN}}

\* a few feature presets, used where another dimension is varied
Presets(k) ==
    {[BaseP EXCEPT !.kind = k],
     [BaseP EXCEPT !.kind = k, !.inf = "true", !.causal = TRUE],
     [BaseP EXCEPT !.kind = k, !.drop = "p10", !.scale = "value", !.bias = "float",
                   !.alibi = TRUE, !.pad = "on", !.causal = TRUE],
     [BaseP EXCEPT !.kind = k, !.drop = "both", !.alibi = TRUE]}

StrideFamily(k) ==
    {[q EXCEPT !.inner = f] : q \in Presets(k), f \in Inners(k) \cup {AllUnset(k)}}

\* dropout probability together with a dropout mask, the rest varied
BothFamily(k) ==
    {[BaseP EXCEPT !.kind = k, !.drop = "both", !.scale = sc, !.pad = pa, !.inf = fl,
                   !.alibi = al, !.idt = it, !.inner = f] :
        sc \in {"none", "value", "tensor", "both"},
        pa \in {"off", "on", "on_nolen", "off_len"},
        fl \in {"true", "false", "unset"}, al \in BOOLEAN, it \in {"FLOAT", "NOT_SET"},
        f \in {AllOne, [AllOne EXCEPT !["Q"] = 2], [AllOne EXCEPT !["V"] = 2],
               [AllOne EXCEPT !["O"] = 2]}}

\* one ill-formed aspect at a time (and the widest accepted hidden dimension)
ErrorFamily(k) ==
    UNION {{[q EXCEPT !.inf = "unset"], [q EXCEPT !.drop = "p100"],
            [q EXCEPT !.idt = "NOT_SET"], [q EXCEPT !.pad = "on_nolen"],
            [q EXCEPT !.pad = "off_len"], [q EXCEPT !.scale = "both"],
            [q EXCEPT !.pad = "on", !.missing = {"SEQ_LEN_KV"}],
            [q EXCEPT !.pad = "on", !.missing = {"SEQ_LEN_Q"}],
            [q EXCEPT !.pad = "off_len", !.missing = {"SEQ_LEN_Q"}],
            [q EXCEPT !.pad = "off_len", !.missing = {"SEQ_LEN_KV"}],
            [q EXCEPT !.bias = "boolean"],
            [q EXCEPT !.sh = Shape(1, 2, 3, 5, 12)],
            [q EXCEPT !.sh = Shape(1, 2, 3, 5, MaxHiddenDim)],
            [q EXCEPT !.sh = Shape(1, 2, 3, 5, MaxHiddenDim + HiddenDimMultiple)],
            [q EXCEPT !.drop = "mask"]}
           \cup {[q EXCEPT !.missing = {h}] : h \in RequiredPorts(q)} :
           q \in Presets(k)}

\* how the caller declared the forward outputs: O left unset, shape only, a
\* shape other than the default one, or shape and a stride that is not
\* packed; V's last dimension equal to Q's (dv = 0) or not; Stats bound in
\* inference mode, or left out in training mode; a dropout probability
\* with Seed or Offset left out
OutputFamily ==
    UNION {{[q EXCEPT !.out = o, !.dv = v] : o \in {"inner", "dims", "wide"}, v \in {0, 16}}
           \cup {[q EXCEPT !.dv = 16, !.inner = f] :
                    f \in {AllUnset("sdpa_fwd"), [AllOne EXCEPT !["O"] = 2]}}
           \cup {[q EXCEPT !.inf = "true", !.extra = {"Stats"}],
                 [q EXCEPT !.inf = "false", !.missing = {"Stats"}],
                 [q EXCEPT !.drop = "p10", !.missing = {"Seed"}],
                 [q EXCEPT !.drop = "p10", !.missing = {"Seed", "Offset"}]} :
           q \in Presets("sdpa_fwd")}

SmallSeqLens == {5, 64, 65}
EnvLimits ==
    {EnvUnset, EnvInvalid} \cup
    {EnvValue(v) : v \in {-2, -1, 0, 1, 8191, 8192, 8193, 32768}}

\* shapes around the ceilings, on every backend
WorkspaceFamily ==
    {[BaseP EXCEPT !.kind = "sdpa_bwd", !.sh = Shape(b, h, sq, skv, 8), !.env = e,
                   !.ver = ve, !.major = ma, !.alibi = al] :
        b \in 1..MaxBatch, h \in 1..MaxHeads, sq \in SmallSeqLens, skv \in {64, 65},
        e \in EnvLimits, ve \in VersionsOf("sdpa_bwd"),
        ma \in {HopperMajor - 1, HopperMajor}, al \in BOOLEAN}
    \cup
    {[BaseP EXCEPT !.kind = "sdpa_bwd", !.sh = Shape(8, 16, sq, 1024, 8), !.env = e,
                   !.ver = ve, !.major = ma] :
        sq \in {1023, 1024, 1025}, e \in {EnvUnset, EnvValue(-1), EnvValue(0)},
        ve \in VersionsOf("sdpa_bwd"), ma \in {HopperMajor - 1, HopperMajor}}

DlnFamily ==
    {[BaseP EXCEPT !.kind = "dln", !.dln = o, !.dy = y, !.ver = ve, !.missing = mi] :
        o \in {"none", "dims", "flat", "packed", "nhwc"},
        y \in {"none", "dims", "flat", "packed", "nhwc"},
        ve \in VersionsOf("dln"), mi \in {{}, {"X"}, {"DY"}, {"MEAN"}}}

Nodes ==
    UNION {FeatureFamily(k) \cup StrideFamily(k) \cup BothFamily(k) \cup ErrorFamily(k) :
           k \in {"sdpa_fwd", "sdpa_bwd"}}
    \cup WorkspaceFamily \cup DlnFamily \cup OutputFamily

Init ==
    \E p \in Nodes :
        /\ kind = p.kind
        /\ attr = AttrOf(p)
        /\ ctx = CtxOf(p)
        /\ given = GivenOf(p)
        /\ T = GivenOf(p)
        /\ children = <<>>
        /\ mem = NoMembers
        /\ sizes = NoSizes
        /\ use_workspace_opt = FALSE
        /\ pbv = <<>>
        /\ calls = <<>>
        /\ workspace = -1
        /\ first = <<>>
        /\ pc = "built"
        /\ err = OK

---------------------------------------------------------------------------
(* The pipeline.  pc is the last step run and err its result; a step runs  *)
(* only when the one before it returned OK.                                *)

Ready(k, at) == kind = k /\ pc = at /\ err = OK

PreValidated(results) ==
    /\ \E r \in results : err' = r
    /\ pc' = "pre_validated"
    /\ UNCHANGED <<kind, attr, ctx, given, T, children, mem, sizes, use_workspace_opt,
                   pbv, calls, workspace, first>>

Fwd_PreValidate ==
    /\ Ready("sdpa_fwd", "built")
    /\ PreValidated(Fwd_pre_validate_node(T, attr, ctx))

Bwd_PreValidate ==
    /\ Ready("sdpa_bwd", "built")
    /\ PreValidated(Bwd_pre_validate_node(T, attr, ctx))

DLN_PreValidate ==
    /\ Ready("dln", "built")
    /\ PreValidated(DLN_pre_validate_node(T))

\* a sub node that was handed a null pointer as its result: its own
\* validation rejects it, or its inference dereferences the pointer
NullResult(ch) == \E i \in 1..Len(ch) : \E j \in 1..Len(ch[i].outs) : ch[i].outs[j] = NULL

\* the node's expansion followed by the inference of the sub nodes it made
Fwd_Expanded(at) ==
    LET Done(e) ==
            /\ T' = IF e.err # OK \/ NullResult(e.ch) THEN e.T
                    ELSE InferSubNodes(e.T, e.ch, 1, ctx)
            /\ children' = e.ch
            /\ mem' = e.mem
            /\ err' \in IF e.err = OK /\ NullResult(e.ch) THEN {ATTRIBUTE_NOT_SET, CRASH}
                        ELSE {e.err}
            /\ pc' = at
            /\ UNCHANGED <<kind, attr, ctx, given, sizes, use_workspace_opt, pbv, calls,
                           workspace>>
    IN  Done(Fwd_expand_and_infer_properties(T, children, mem, sizes, attr, ctx))

Bwd_Expanded(at) ==
    LET Done(e) ==
            /\ T' = IF e.err # OK THEN e.T ELSE InferSubNodes(e.T, e.ch, 1, ctx)
            /\ children' = e.ch
            /\ mem' = e.mem
            /\ sizes' = e.sizes
            /\ use_workspace_opt' = e.opt
            /\ calls' = calls \o e.calls
            /\ err' = e.err
            /\ pc' = at
            /\ UNCHANGED <<kind, attr, ctx, given, pbv, workspace>>
    IN  \E devPropOk \in BOOLEAN :
            Done(Bwd_expand_and_infer_properties(T, children, mem, sizes, attr, ctx,
                                                 devPropOk))

DLN_Expanded(at) ==
    LET Done(e) ==
            /\ T' = e.T
            /\ mem' = e.mem
            /\ err' = OK
            /\ pc' = at
            /\ UNCHANGED <<kind, attr, ctx, given, children, sizes, use_workspace_opt,
                           pbv, calls, workspace>>
    IN  Done(DLN_expand_and_infer_properties(T, mem, ctx))

Fwd_Expand == Ready("sdpa_fwd", "pre_validated") /\ Fwd_Expanded("expanded") /\ first' = T'
Bwd_Expand == Ready("sdpa_bwd", "pre_validated") /\ Bwd_Expanded("expanded") /\ first' = T'
DLN_Expand == Ready("dln", "pre_validated") /\ DLN_Expanded("expanded") /\ first' = T'

\* expand_and_infer_properties run once more on the expanded node
Fwd_ReExpand == Ready("sdpa_fwd", "expanded") /\ Fwd_Expanded("reexpanded") /\ first' = first
Bwd_ReExpand == Ready("sdpa_bwd", "expanded") /\ Bwd_Expanded("reexpanded") /\ first' = first
DLN_ReExpand == Ready("dln", "expanded") /\ DLN_Expanded("reexpanded") /\ first' = first

PostValidated(results) ==
    /\ \E r \in results : err' = r
    /\ pc' = "post_validated"
    /\ UNCHANGED <<kind, attr, ctx, given, T, children, mem, sizes, use_workspace_opt,
                   pbv, calls, workspace, first>>

Fwd_PostValidate ==
    Ready("sdpa_fwd", "expanded") /\ PostValidated(Fwd_post_validate_node(T))
Bwd_PostValidate ==
    Ready("sdpa_bwd", "expanded") /\ PostValidated(Bwd_post_validate_node(T))
DLN_PostValidate ==
    Ready("dln", "expanded") /\ PostValidated(DLN_post_validate_node(T))

Sized(n) ==
    /\ workspace' = n
    /\ pc' = "sized"
    /\ UNCHANGED <<kind, attr, ctx, given, T, children, mem, sizes, use_workspace_opt,
                   pbv, calls, first, err>>

Fwd_GetWorkspaceSize ==
    Ready("sdpa_fwd", "post_validated") /\ Sized(Fwd_get_fe_workspace_size_node(T))
Bwd_GetWorkspaceSize ==
    Ready("sdpa_bwd", "post_validated") /\ Sized(Bwd_get_fe_workspace_size_node(sizes))

Materialized(r) ==
    /\ pbv' = r.map
    /\ calls' = r.calls
    /\ err' = r.err
    /\ pc' = "materialized"
    /\ UNCHANGED <<kind, attr, ctx, given, T, children, mem, sizes, use_workspace_opt,
                   workspace, first>>

Fwd_Materialize ==
    /\ Ready("sdpa_fwd", "sized")
    /\ \E streamOk \in BOOLEAN, copyOk \in BOOLEAN :
          Materialized(Fwd_pass_by_value_tensors_(T, attr, ctx, mem, pbv, calls,
                                                  streamOk, copyOk))

Bwd_Materialize ==
    /\ Ready("sdpa_bwd", "sized")
    /\ \E streamOk \in BOOLEAN, copyOk \in BOOLEAN, fillStreamOk \in BOOLEAN,
          fillOk \in BOOLEAN :
          Materialized(Bwd_pass_by_value_tensors_(T, attr, mem, sizes, pbv, calls,
                                                  streamOk, copyOk, fillStreamOk, fillOk))

DLN_Materialize ==
    /\ Ready("dln", "post_validated")
    /\ Materialized(DLN_pass_by_value_tensors_(mem, pbv, calls))

Next ==
    \/ Fwd_PreValidate \/ Fwd_Expand \/ Fwd_ReExpand \/ Fwd_PostValidate
    \/ Fwd_GetWorkspaceSize \/ Fwd_Materialize
    \/ Bwd_PreValidate \/ Bwd_Expand \/ Bwd_ReExpand \/ Bwd_PostValidate
    \/ Bwd_GetWorkspaceSize \/ Bwd_Materialize
    \/ DLN_PreValidate \/ DLN_Expand \/ DLN_ReExpand \/ DLN_PostValidate
    \/ DLN_Materialize

Spec == Init /\ [][Next]_vars
---------------------------------------------------------------------------
(* Vocabulary of the properties, stated on the node as the caller built it *)
(* (given, attr, ctx) and on what the pipeline left behind                 *)

Attention == kind \in {"sdpa_fwd", "sdpa_bwd"}

RequiredBound ==
    \A h \in (IF kind = "sdpa_fwd" THEN {"Q", "K", "V", "O"} ELSE BwdRequired) :
        h \in DOMAIN given

\* the tensors whose innermost stride pre_validate_node reads
PreChecked == IF kind = "sdpa_fwd" THEN {"Q", "K", "V"} ELSE BwdRequired

Declared(h) == h \in DOMAIN given /\ given[h].stride # <<>>

Innermost(t) == t.stride[Len(t.stride)]

\* a stride the caller declared, with an innermost entry other than 1
DeclaredBad(h) == Declared(h) /\ Innermost(given[h]) # 1

\* every stride pre_validate_node reads is declared, and is 1
PreCheckedUnit ==
    /\ \A h \in PreChecked : Declared(h) /\ Innermost(given[h]) = 1
    /\ kind = "sdpa_bwd" => given["Stats"].stride[3] = 1

PreCheckedBad ==
    \/ \E h \in PreChecked : DeclaredBad(h)
    \/ kind = "sdpa_bwd" /\ Declared("Stats") /\ given["Stats"].stride[3] # 1

NodeOutputs ==
    CASE kind = "sdpa_fwd" -> FwdOutputs
      [] kind = "sdpa_bwd" -> BwdOutputs
      [] OTHER -> DlnOutputs

BothDropoutSources ==
    attr.dropout_probability.has /\ "Dropout_mask" \in DOMAIN given

\* C1 (as stated): with a dropout probability and a dropout mask together,
\* pre_validate_node of either attention node returns ATTRIBUTE_NOT_SET
\* whatever the other attributes are.
C1_AlwaysAttributeNotSet ==
    (Attention /\ BothDropoutSources /\ pc = "pre_validated")
        => err = ATTRIBUTE_NOT_SET

\* C1 (amended): with a dropout probability and a dropout mask together,
\* pre_validate_node of either attention node never succeeds; it returns
\* ATTRIBUTE_NOT_SET when a required port is missing or every stride it
\* reads is declared 1, and GRAPH_NOT_SUPPORTED only from the stride check
\* that runs before the dropout check.
C1_BothDropoutRejected ==
    (Attention /\ BothDropoutSources /\ pc = "pre_validated")
        => /\ err \in {ATTRIBUTE_NOT_SET, GRAPH_NOT_SUPPORTED, CRASH}
           /\ (~RequiredBound \/ PreCheckedUnit) => err = ATTRIBUTE_NOT_SET
           /\ err = GRAPH_NOT_SUPPORTED => (RequiredBound /\ ~PreCheckedUnit)
           /\ (RequiredBound /\ PreCheckedBad) => err # ATTRIBUTE_NOT_SET

\* C1 witness: a backward node with alibi and both dropout sources, rejected
\* with ATTRIBUTE_NOT_SET
C1_Witness ==
    /\ kind = "sdpa_bwd" /\ BothDropoutSources /\ attr.alibi_mask
    /\ RequiredBound /\ PreCheckedUnit
    /\ pc = "pre_validated" /\ err = ATTRIBUTE_NOT_SET

ExternalPorts == {"Q", "K", "V", "O", "dO", "dQ", "dK", "dV", "Stats"}

\* the externally bound operands and results of sub node i
ExternalOperands(i) ==
    {children[i].ins[j] : j \in 1..Len(children[i].ins)}
    \cup {children[i].outs[j] : j \in 1..Len(children[i].outs)}

TouchedPorts ==
    {h \in ExternalPorts : \E i \in 1..Len(children) : h \in ExternalOperands(i)}

TransposedPorts == IF kind = "sdpa_fwd" THEN {"K"} ELSE {"K", "V"}

\* C3 (as stated): after a successful expansion of an attention node, every
\* externally bound tensor a sub node touches has innermost stride 1.
C3_OperandsInnermostUnit ==
    (Attention /\ pc = "expanded" /\ err = OK)
        => \A h \in TouchedPorts : Innermost(T[h]) = 1

\* C3 (amended): after a successful expansion of an attention node, an
\* externally bound tensor a sub node touches has innermost stride 1 unless
\* it is the transposed K (or V in the backward node), whose stride is the
\* caller's with entries 2 and 3 swapped, so that its unit stride sits in
\* dimension 2; or the forward O or Stats, which keep a stride the caller
\* declared (O is checked only by post_validate_node, after which it is 1).
C3_OperandsStrideAfterExpansion ==
    /\ (Attention /\ pc = "expanded" /\ err = OK)
          => \A h \in TouchedPorts :
                IF h \in TransposedPorts
                THEN LET g == given[h].stride
                     IN  /\ T[h].stride = <<g[1], g[2], g[4], g[3]>>
                         /\ T[h].stride[3] = 1
                ELSE IF kind = "sdpa_fwd" /\ h \in {"O", "Stats"} /\ Declared(h)
                     THEN T[h].stride = given[h].stride
                     ELSE Innermost(T[h]) = 1
    /\ (kind = "sdpa_fwd" /\ pc = "post_validated" /\ err = OK)
          => Innermost(T["O"]) = 1

\* C3 witness: an expanded backward node whose V reaches matmul_dO_VT with
\* unit stride in dimension 2 and a non-unit innermost stride
C3_Witness ==
    /\ kind = "sdpa_bwd" /\ pc = "expanded" /\ err = OK
    /\ "V" \in TouchedPorts
    /\ T["V"].stride[3] = 1 /\ Innermost(T["V"]) # 1
\* the sub nodes of the forward expansion in the order the method fixes,
\* each named by its first result
FwdStageOrder ==
    <<"bmm1::C", "attn_scale::OUT_0", "bias::OUT_0",
      "alibi.gen_row_index::OUT_0", "alibi.gen_col_index::OUT_0", "alibi.sub::OUT_0",
      "alibi.mul::OUT_0", "alibi.add::OUT_0",
      "padding.gen_row_index::OUT_0", "padding.gen_col_index::OUT_0",
      "padding.row_less_seq_q::OUT_0", "padding.col_less_seq_kv::OUT_0",
      "padding.logical_and::OUT_0", "padding.binary_select::OUT_0",
      "causal.gen_row_index::OUT_0", "causal.gen_col_index::OUT_0",
      "causal.row_greater_than_col::OUT_0", "causal.binary_select::OUT_0",
      "softmax::Y", "rng", "dropout_mask_mul::OUT_0", "dropout_scale::OUT_0", "O">>

\* the stage a sub node belongs to
StageOf(id) ==
    CASE id = "bmm1::C" -> "bmm1"
      [] id = "attn_scale::OUT_0" -> "scale"
      [] id = "bias::OUT_0" -> "bias"
      [] id \in {"alibi.gen_row_index::OUT_0", "alibi.gen_col_index::OUT_0",
                 "alibi.sub::OUT_0", "alibi.mul::OUT_0", "alibi.add::OUT_0"} -> "alibi"
      [] id \in {"padding.gen_row_index::OUT_0", "padding.gen_col_index::OUT_0",
                 "padding.row_less_seq_q::OUT_0", "padding.col_less_seq_kv::OUT_0",
                 "padding.logical_and::OUT_0", "padding.binary_select::OUT_0"} -> "padding"
      [] id \in {"causal.gen_row_index::OUT_0", "causal.gen_col_index::OUT_0",
                 "causal.row_greater_than_col::OUT_0",
                 "causal.binary_select::OUT_0"} -> "causal"
      [] id = "softmax::Y" -> "softmax"
      [] id \in {"rng", "dropout_mask_mul::OUT_0", "dropout_scale::OUT_0"} -> "dropout"
      [] OTHER -> "bmm2"

\* the stages the node as built enables; the dropout block is taken as
\* enabled when the expansion made its scale literal
EnabledStages ==
    {"bmm1", "softmax", "bmm2"}
    \cup (IF attr.attn_scale_value.has \/ "Attn_scale" \in DOMAIN given
          THEN {"scale"} ELSE {})
    \cup (IF "Bias" \in DOMAIN given THEN {"bias"} ELSE {})
    \cup (IF attr.alibi_mask THEN {"alibi"} ELSE {})
    \cup (IF attr.padding_mask THEN {"padding"} ELSE {})
    \cup (IF attr.causal_mask THEN {"causal"} ELSE {})
    \cup (IF mem.dropout_scale # NULL THEN {"dropout"} ELSE {})

ChildId(i) == IF children[i].op = "rng" THEN "rng" ELSE children[i].outs[1]

IsEnabledStage(id) == StageOf(id) \in EnabledStages

\* the results that become the running input of the next stage
RunningOutputs ==
    {"bmm1::C", "attn_scale::OUT_0", "bias::OUT_0", "alibi.add::OUT_0",
     "padding.binary_select::OUT_0", "causal.binary_select::OUT_0", "softmax::Y",
     "dropout_mask_mul::OUT_0", "dropout_scale::OUT_0"}

\* the sub nodes that consume the running input as their first operand
RunningConsumers == (RunningOutputs \ {"bmm1::C"}) \cup {"O"}

\* the result of the last sub node before i that produced a running output
RunningInput(i) ==
    LET js == {j \in 1..(i - 1) : ChildId(j) \in RunningOutputs}
    IN  ChildId(CHOOSE j \in js : \A k \in js : k <= j)

\* C4: the sub nodes of a successful forward expansion are the fixed order
\* matmul(Q,K^T), scale, bias, alibi block, padding block, causal block,
\* softmax, dropout block (rng, mask multiply, scale multiply), matmul(P,V)
\* restricted to the enabled features, and each stage takes as its running
\* input the result of the last enabled stage before it.
C4_FixedStageOrder ==
    (kind = "sdpa_fwd" /\ pc = "expanded" /\ err = OK)
        => /\ [i \in 1..Len(children) |-> ChildId(i)]
                = SelectSeq(FwdStageOrder, IsEnabledStage)
           /\ children[1].ins = <<"Q", "K">>
           /\ children[Len(children)].ins[2] = "V"
           /\ \A i \in 1..Len(children) :
                 ChildId(i) \in RunningConsumers
                     => children[i].ins[1] = RunningInput(i)

\* C4 witness: an expansion with scale, bias, alibi, padding, causal mask
\* and dropout all enabled, 23 sub nodes
C4_Witness ==
    /\ kind = "sdpa_fwd" /\ pc = "expanded" /\ err = OK
    /\ EnabledStages = {"bmm1", "scale", "bias", "alibi", "padding", "causal",
                        "softmax", "dropout", "bmm2"}
    /\ Len(children) = 23

\* the shape of the node as built
GivenDims ==
    [b |-> given["Q"].dim[1], h |-> given["Q"].dim[2], s_q |-> given["Q"].dim[3],
     d |-> given["Q"].dim[4], s_kv |-> given["K"].dim[3]]

RoundUp64(x) == ((x + 63) \div 64) * 64

RequiredBytes ==
    GivenDims.b * GivenDims.h * RoundUp64(GivenDims.s_q) * RoundUp64(GivenDims.s_kv) * 2

\* the byte ceiling: the override, or 256 MB when it is unset
Ceiling ==
    IF ctx.env_limit.set THEN ctx.env_limit.val ELSE 256 * 1024 * 1024

SupportingBackend == ctx.version >= 8905 /\ ctx.major >= 9

BwdExpandedOk == kind = "sdpa_bwd" /\ pc = "expanded" /\ err = OK

\* C5: on a supporting backend with a positive ceiling L, the backward
\* expansion enables the workspace optimisation iff
\* b * h * roundup64(s_q) * roundup64(s_kv) * 2 <= L.
C5_EnabledIffWithinCeiling ==
    (BwdExpandedOk /\ SupportingBackend /\ Ceiling > 0)
        => (use_workspace_opt <=> RequiredBytes <= Ceiling)

\* C5 witness: the required bytes equal the override exactly and the
\* optimisation is enabled
C5_Witness ==
    /\ BwdExpandedOk /\ SupportingBackend
    /\ ctx.env_limit.set /\ Ceiling = 8192 /\ RequiredBytes = Ceiling
    /\ use_workspace_opt

\* C6: an override of 0 disables the workspace optimisation for every shape,
\* an override of -1 enables it for every shape on a supporting backend, and
\* on any other backend it is disabled whatever the override and the shape.
C6_OverrideZeroMinusOneAndSupport ==
    BwdExpandedOk
        => /\ (ctx.env_limit.set /\ ctx.env_limit.valid /\ ctx.env_limit.val = 0)
                 => ~use_workspace_opt
           /\ (SupportingBackend /\ ctx.env_limit.set /\ ctx.env_limit.val = -1)
                 => use_workspace_opt
           /\ ~SupportingBackend => ~use_workspace_opt

\* C6 witness: override -1 on a supporting backend with a shape above the
\* default ceiling, enabled
C6_Witness ==
    /\ BwdExpandedOk /\ SupportingBackend
    /\ ctx.env_limit.set /\ ctx.env_limit.val = -1
    /\ RequiredBytes > 256 * 1024 * 1024
    /\ use_workspace_opt

SameLayout(t, u) == t.dim = u.dim /\ t.stride = u.stride /\ t.dtype = u.dtype

\* C7: a second expand_and_infer_properties on a node whose port tensors
\* were fully specified after the first leaves the shape, stride and data
\* type of every port tensor as the first run left them.
C7_SecondExpansionKeepsPorts ==
    (pc = "reexpanded" /\ err = OK /\ \A h \in DOMAIN given : Resolved(first[h]))
        => \A h \in DOMAIN given : SameLayout(T[h], first[h])

\* the tensors the expansion created that are not virtual: pass-by-value
\* literals and workspace-resident buffers
CreatedHelpers == {h \in (DOMAIN T) \ (DOMAIN given) : ~T[h].virt}

\* C8: after a successful materialize call every helper tensor the
\* expansion created has an entry in the output map, and no entry has a
\* null key.
C8_EveryHelperHasEntry ==
    (pc = "materialized" /\ err = OK)
        => /\ \A h \in CreatedHelpers : h \in DOMAIN pbv
           /\ NULL \notin DOMAIN pbv

\* the bytes of the workspace-resident helpers the expansion created
ExpectedWorkspace ==
    LET g == GivenDims
    IN  IF kind = "sdpa_fwd"
        THEN (IF attr.alibi_mask THEN g.h * 4 ELSE 0)
        ELSE (IF attr.alibi_mask THEN g.h * 4 ELSE 0)
             + (IF mem.dQ_accum # NULL THEN g.b * g.h * g.s_q * g.d * 4 ELSE 0)
             + (IF ctx.version < 8905 THEN g.b * g.h * g.s_q * 4 ELSE 0)

\* C9: get_fe_workspace_size_node returns the sum of the sizes of the
\* workspace-resident helpers the expansion created: forward h*4 with alibi
\* and 0 without; backward h*4 with alibi, plus b*h*s_q*d*4 with a dQ
\* accumulator, plus b*h*s_q*4 when softmax_sum is non-virtual.
C9_WorkspaceSizeIsSumOfHelpers ==
    (Attention /\ pc = "sized") => workspace = ExpectedWorkspace

UnsettableOutputs ==
    CASE kind = "sdpa_fwd" -> {"O"}
      [] kind = "sdpa_bwd" -> {"dQ", "dK", "dV"}
      [] OTHER -> {"DX", "DSCALE", "DBIAS"}

OutputsLeftUnset ==
    \A h \in UnsettableOutputs :
        h \in DOMAIN given /\ given[h].dim = <<>> /\ given[h].stride = <<>>

\* the node is well formed apart from its outputs' shapes and strides
OtherwiseValid ==
    CASE kind = "sdpa_fwd" ->
            /\ RequiredBound /\ PreCheckedUnit
            /\ Fwd_after_strides(given, attr, ctx) = OK
      [] kind = "sdpa_bwd" ->
            /\ RequiredBound
            /\ \A h \in {"Q", "K", "V", "O", "dO", "Stats"} :
                  Declared(h) /\ Innermost(given[h]) = 1
            /\ given["Stats"].stride[3] = 1
            /\ Bwd_after_strides(given, attr, ctx) = OK
      [] OTHER -> \A h \in DlnRequiredInputs : h \in DOMAIN given

\* C10: with the shape and stride of every output left unset on an otherwise
\* valid node, pre_validate_node succeeds, and post_validate_node succeeds
\* with every output's shape and stride specified.
C10_UnsetOutputsAccepted ==
    (OutputsLeftUnset /\ OtherwiseValid)
        => /\ pc = "pre_validated" => err = OK
           /\ pc = "post_validated"
                 => (err = OK /\ \A h \in UnsettableOutputs : Resolved(T[h]))

---------------------------------------------------------------------------
(* Dropout in the forward expansion *)

FwdExpanded == kind = "sdpa_fwd" /\ pc = "expanded"

\* the sub nodes with a given name, by position
ChildrenNamed(n) == {i \in 1..Len(children) : children[i].name = n}

ChildrenOfMode(m) == {i \in 1..Len(children) : children[i].mode = m}

\* the configurations in which the forward node needs dropout
DropoutNeeded ==
    \/ /\ attr.dropout_probability.has
       /\ ~(attr.dropout_probability.val = 0 /\ ctx.version > VersionDropoutSkip)
    \/ /\ ~attr.dropout_probability.has
       /\ "Dropout_mask" \in DOMAIN given

DropoutPrimitives ==
    /\ Cardinality({i \in 1..Len(children) : children[i].op = "rng"}) = 1
    /\ Cardinality(ChildrenNamed("dropout_mask_mul")) = 1
    /\ Cardinality(ChildrenNamed("dropout_scale")) = 1
    /\ mem.dropout_scale # NULL
    /\ mem.dropout_scale \in DOMAIN T
    /\ T[mem.dropout_scale].pbv

NoDropoutPrimitives ==
    /\ \A i \in 1..Len(children) : children[i].op # "rng"
    /\ ChildrenNamed("dropout_mask_mul") = {}
    /\ ChildrenNamed("dropout_scale") = {}
    /\ mem.dropout_scale = NULL
    /\ "dropout_scale" \notin DOMAIN T

\* C11: the forward expansion appends the rng, mask-multiply and
\* scale-multiply sub nodes and creates the pass-by-value dropout scale iff
\* a probability is set and not (0 on a backend above 8902), or no
\* probability is set and a Dropout_mask is bound; otherwise the expanded
\* node holds no rng sub node and no dropout scale tensor.
C11_DropoutIffNeeded ==
    FwdExpanded
        => /\ DropoutNeeded <=> DropoutPrimitives
           /\ ~DropoutNeeded => NoDropoutPrimitives


\* a probability strictly between 0 and 1 (kept in percent)
ProperDropout ==
    /\ attr.dropout_probability.has
    /\ attr.dropout_probability.val > 0
    /\ attr.dropout_probability.val < 100

RngNodes == {i \in 1..Len(children) : children[i].op = "rng"}

SoftmaxNodes == {i \in 1..Len(children) : children[i].op = "softmax"}

\* what the caller's port h holds
CallerPort(h) == IF h \in DOMAIN given THEN h ELSE NULL

\* the rng sub node i draws from what the caller's Seed and Offset ports
\* hold, with parameter 1 - p, the next sub node multiplies the softmax
\* output by its result, and the one after multiplies that product by the
\* dropout scale
DropoutChain(i) ==
    /\ children[i].ins = <<CallerPort("Seed"), CallerPort("Offset")>>
    /\ children[i].mode = "BERNOULLI"
    /\ children[i].prob = 100 - attr.dropout_probability.val
    /\ i - 1 \in SoftmaxNodes
    /\ i + 2 <= Len(children)
    /\ children[i + 1].mode = "MUL"
    /\ children[i + 1].ins = <<children[i - 1].outs[1], children[i].outs[1]>>
    /\ children[i + 2].mode = "MUL"
    /\ children[i + 2].ins = <<children[i + 1].outs[1], mem.dropout_scale>>
    /\ mem.dropout_scale \in DOMAIN T
    /\ T[mem.dropout_scale].pbv

\* the value v equals 1 / (1 - p)
IsDropoutScale(v) ==
    /\ v.kind \in {"float", "half"}
    /\ v.num * (100 - attr.dropout_probability.val) = 100 * v.den

\* C12: with 0 < p < 1 the forward expansion creates exactly one rng sub node,
\* fed by the caller's Seed and Offset with Bernoulli parameter 1 - p, whose
\* result is multiplied into the softmax output and then by the dropout scale
\* tensor; the materialisation binds that tensor to 1 / (1 - p).
C12_DropoutChainAndScale ==
    (kind = "sdpa_fwd" /\ ProperDropout)
        => /\ (pc = "expanded" /\ err = OK)
                => /\ Cardinality(RngNodes) = 1
                   /\ \A i \in RngNodes : DropoutChain(i)
           /\ pc = "materialized"
                => /\ mem.dropout_scale \in DOMAIN pbv
                   /\ IsDropoutScale(pbv[mem.dropout_scale])

C12_Witness ==
    /\ kind = "sdpa_fwd" /\ ProperDropout
    /\ {"Seed", "Offset"} \subseteq DOMAIN given
    /\ pc = "materialized" /\ err = OK
    /\ Cardinality(RngNodes) = 1
    /\ \A i \in RngNodes : DropoutChain(i)
    /\ pbv[mem.dropout_scale] = Scalar("float", 100, 90)


---------------------------------------------------------------------------
(* Causal masking in the forward expansion *)

\* the sub node at position i is a GEN_INDEX along axis ax of tensor h
IsGenIndex(i, ax, h) ==
    /\ children[i].mode = "GEN_INDEX"
    /\ children[i].axis = ax
    /\ children[i].ins = <<h>>

\* the four sub nodes that end at position j: row index, column index,
\* row >= column, and the selection between the running score and the
\* pass-by-value constant
CausalChain(j) ==
    /\ j > 4
    /\ IsGenIndex(j - 3, 2, children[j - 4].outs[1])
    /\ IsGenIndex(j - 2, 3, children[j - 4].outs[1])
    /\ children[j - 1].mode = "CMP_GE"
    /\ children[j - 1].ins = <<children[j - 3].outs[1], children[j - 2].outs[1]>>
    /\ children[j].mode = "BINARY_SELECT"
    /\ children[j].ins = <<children[j - 4].outs[1], mem.negative_inf_causal,
                           children[j - 1].outs[1]>>
    /\ mem.negative_inf_causal \in DOMAIN T
    /\ T[mem.negative_inf_causal].pbv

OtherMasks == attr.alibi_mask \/ attr.padding_mask

\* the number of sub nodes of mode m the alibi and padding stages add
FromOtherMasks(m) ==
    CASE m = "GEN_INDEX" -> (IF attr.alibi_mask THEN 2 ELSE 0)
                            + (IF attr.padding_mask THEN 2 ELSE 0)
      [] m = "BINARY_SELECT" -> IF attr.padding_mask THEN 1 ELSE 0
      [] OTHER -> 0

\* C13: with causal_mask the forward expansion inserts exactly two GEN_INDEX
\* sub nodes (axis 2 for rows, axis 3 for columns), one CMP_GE of row against
\* column and one BINARY_SELECT between the running score and a
\* pass-by-value constant; the BINARY_SELECT comes directly before softmax,
\* which reads its result, and the materialisation binds the constant to the
\* lowest finite float.  Without causal_mask and without another mask there
\* is no such sub node and no such constant.
C13_CausalChainBeforeSoftmax ==
    kind = "sdpa_fwd"
        => /\ (pc = "expanded" /\ err = OK /\ attr.causal_mask)
                => /\ Cardinality(ChildrenOfMode("GEN_INDEX"))
                        = 2 + FromOtherMasks("GEN_INDEX")
                   /\ Cardinality(ChildrenOfMode("CMP_GE")) = 1
                   /\ Cardinality(ChildrenOfMode("BINARY_SELECT"))
                        = 1 + FromOtherMasks("BINARY_SELECT")
                   /\ Cardinality(SoftmaxNodes) = 1
                   /\ \A i \in SoftmaxNodes :
                        /\ CausalChain(i - 1)
                        /\ children[i].ins = <<children[i - 1].outs[1]>>
           /\ (pc = "materialized" /\ attr.causal_mask)
                => /\ mem.negative_inf_causal \in DOMAIN pbv
                   /\ pbv[mem.negative_inf_causal] = Lowest
           /\ (pc \in {"expanded", "materialized"} /\ ~attr.causal_mask /\ ~OtherMasks)
                => /\ ChildrenOfMode("GEN_INDEX") = {}
                   /\ ChildrenOfMode("CMP_GE") = {}
                   /\ ChildrenOfMode("BINARY_SELECT") = {}
                   /\ mem.negative_inf_causal = NULL
                   /\ "negative_inf_causal" \notin DOMAIN T
                   /\ \A h \in DOMAIN pbv : pbv[h] # Lowest

C13_Witness ==
    /\ kind = "sdpa_fwd" /\ attr.causal_mask /\ ~OtherMasks
    /\ pc = "materialized" /\ err = OK
    /\ Cardinality(ChildrenOfMode("GEN_INDEX")) = 2
    /\ \A i \in SoftmaxNodes : CausalChain(i - 1)
    /\ pbv[mem.negative_inf_causal] = Lowest


---------------------------------------------------------------------------
(* The output of the forward expansion *)

\* {b, h, s_q, d_v}: b, h, s_q from Q, d_v from V
DefaultODim == <<given["Q"].dim[1], given["Q"].dim[2], given["Q"].dim[3], given["V"].dim[4]>>

\* C14: after a forward expansion an O whose shape the caller left unset has
\* the shape {b, h, s_q, d_v}, an O whose stride the caller left unset has
\* the packed row-major stride of O's shape ({h*s_q*d_v, s_q*d_v, d_v, 1}
\* for the default shape), and a shape or stride the caller declared on O is
\* the one O still has.
C14_OutputShapeAndStride ==
    (FwdExpanded /\ err = OK)
        => /\ given["O"].dim = <<>> => T["O"].dim = DefaultODim
           /\ given["O"].stride = <<>>
                => T["O"].stride = <<T["O"].dim[2] * T["O"].dim[3] * T["O"].dim[4],
                                     T["O"].dim[3] * T["O"].dim[4],
                                     T["O"].dim[4], 1>>
           /\ given["O"].dim # <<>> => T["O"].dim = given["O"].dim
           /\ given["O"].stride # <<>> => T["O"].stride = given["O"].stride

\* O left unset next to a V whose last dimension differs from Q's
C14_Witness ==
    /\ FwdExpanded /\ err = OK
    /\ given["O"].dim = <<>> /\ given["O"].stride = <<>>
    /\ given["V"].dim[4] # given["Q"].dim[4]
    /\ T["O"].dim = <<1, 2, 3, 16>>
    /\ T["O"].stride = <<96, 48, 16, 1>>


---------------------------------------------------------------------------
(* Failures of the runtime *)

RuntimeErrors == {CUDNN_BACKEND_API_FAILED, CUDA_API_FAILED}

\* the non-virtual dQ accumulator, if the expansion created one
ResidentDQAccum ==
    mem.dQ_accum # NULL /\ mem.dQ_accum \in DOMAIN T /\ ~T[mem.dQ_accum].virt

\* the runtime calls an error-free materialisation of the node issues
MaterializeCalls ==
    (IF attr.alibi_mask
     THEN <<Call("cudnnGetStream", 0, 0),
            Call("cudaMemcpyAsync", 0, given["Q"].dim[2] * SizeofFloat)>>
     ELSE <<>>)
    \o (IF kind = "sdpa_bwd" /\ ResidentDQAccum
        THEN <<Call("cudnnGetStream", 0, 0),
               Call("cudaMemsetAsync", sizes.alibi_slopes_size, sizes.dQ_accum_size)>>
        ELSE <<>>)

\* the calls issued by the step just taken
Issued == SubSeq(calls', Len(calls) + 1, Len(calls'))

\* the helpers whose map entries a materialisation adds at or after the
\* upload whose i-th call failed
EntriesFrom(i) ==
    IF attr.alibi_mask /\ i <= 2
    THEN IF kind = "sdpa_fwd"
         THEN {mem.alibi_slopes, "Attn_scale"}
         ELSE {mem.alibi_slopes, mem.negative_inf_padding, mem.negative_inf_causal,
               "Dropout_scale", "Dropout_scale_inv", mem.dQ_accum, mem.softmax_sum}
    ELSE {mem.dQ_accum, mem.softmax_sum}

\* the failing call is the last one issued, matches the error returned, and
\* the calls issued are the error-free ones up to it, each once
FailedAt(expected) ==
    /\ Issued # <<>>
    /\ Len(Issued) <= Len(expected)
    /\ Issued = SubSeq(expected, 1, Len(Issued))
    /\ err' = CUDNN_BACKEND_API_FAILED <=> Issued[Len(Issued)].op = "cudnnGetStream"

FailedStep ==
    /\ err' \notin {OK, ATTRIBUTE_NOT_SET, GRAPH_NOT_SUPPORTED}
    /\ IF pc' = "materialized"
       THEN /\ FailedAt(MaterializeCalls)
            /\ DOMAIN pbv' \cap EntriesFrom(Len(Issued)) = {}
            /\ UNCHANGED <<T, children, mem, sizes>>
       ELSE /\ kind = "sdpa_bwd"
            /\ pc' \in {"expanded", "reexpanded"}
            /\ FailedAt(<<Call("cudaGetDeviceProperties", 0, 0)>>)
            /\ UNCHANGED <<children, pbv>>

\* C15: a step in which the stream query, the asynchronous copy, the
\* asynchronous fill or the device-properties query fails returns an error
\* other than ATTRIBUTE_NOT_SET and GRAPH_NOT_SUPPORTED at once: the failing
\* call was issued once and is the last call of the step, no map entry is
\* added from the failing upload on, and a failed device-properties query
\* leaves the sub nodes as they were.
C15_RuntimeFailureAborts ==
    [][err' \in RuntimeErrors => FailedStep]_vars

\* the alibi slopes were copied, then the fill of the dQ accumulator failed
C15_Witness ==
    /\ kind = "sdpa_bwd" /\ pc = "materialized" /\ err = CUDA_API_FAILED
    /\ Len(calls) = 5
    /\ calls[5].op = "cudaMemsetAsync"
    /\ mem.alibi_slopes \in DOMAIN pbv
    /\ mem.dQ_accum \notin DOMAIN pbv


---------------------------------------------------------------------------
(* The checks of pre_validate_node, stated on the node as the caller built *)
(* it                                                                      *)

PreValidatedAttention == Attention /\ pc = "pre_validated"

PortsAndStridesPass == RequiredBound /\ PreCheckedUnit

InferenceSet == attr.is_inference # "unset"

DropoutPass ==
    /\ ~BothDropoutSources
    /\ ~(attr.dropout_probability.has /\ attr.dropout_probability.val = 100)

SeqLensBound == {h \in {"SEQ_LEN_Q", "SEQ_LEN_KV"} : h \in DOMAIN given}

PaddingPass ==
    IF attr.padding_mask THEN SeqLensBound = {"SEQ_LEN_Q", "SEQ_LEN_KV"}
    ELSE SeqLensBound = {}

IntermediateSet == ctx.intermediate_data_type # "NOT_SET"

ScaleTensorAndValue == "Attn_scale" \in DOMAIN given /\ attr.attn_scale_value.has

WidthOk == given["Q"].dim[4] <= 128 /\ given["Q"].dim[4] % 8 = 0

BooleanBias == "Bias" \in DOMAIN given /\ given["Bias"].dtype = "BOOLEAN"

\* every check that precedes the attn_scale check passes
BeforeScaleCheck ==
    /\ PortsAndStridesPass /\ DropoutPass /\ PaddingPass
    /\ kind = "sdpa_fwd" => (InferenceSet /\ IntermediateSet)

\* C16: on an attention node that passes every earlier check of
\* pre_validate_node, an Attn_scale tensor together with an
\* attn_scale_value makes the call return ATTRIBUTE_NOT_SET; with at most
\* one of the two the call goes on to the later checks, succeeding when they
\* pass and returning GRAPH_NOT_SUPPORTED when the hidden dimension or the
\* bias type is rejected.
C16_ScaleTensorAndValueRejected ==
    (PreValidatedAttention /\ BeforeScaleCheck)
        => /\ ScaleTensorAndValue => err = ATTRIBUTE_NOT_SET
           /\ (~ScaleTensorAndValue /\ IntermediateSet /\ WidthOk /\ ~BooleanBias)
                => err = OK
           /\ (~ScaleTensorAndValue /\ IntermediateSet /\ (~WidthOk \/ BooleanBias))
                => err = GRAPH_NOT_SUPPORTED

C16_Witness ==
    /\ PreValidatedAttention /\ BeforeScaleCheck /\ ScaleTensorAndValue
    /\ kind = "sdpa_bwd" /\ attr.alibi_mask
    /\ err = ATTRIBUTE_NOT_SET


\* every check that precedes the hidden dimension check passes
BeforeWidthCheck ==
    /\ PortsAndStridesPass /\ DropoutPass /\ PaddingPass
    /\ kind = "sdpa_fwd" => InferenceSet
    /\ IntermediateSet
    /\ ~ScaleTensorAndValue

\* C17: pre_validate_node of an attention node succeeds only if the last
\* dimension of Q is at most 128 and a multiple of 8; when every earlier
\* check passes and it is not, the call returns GRAPH_NOT_SUPPORTED.
C17_HiddenDimChecked ==
    PreValidatedAttention
        => /\ (err = OK) => WidthOk
           /\ (BeforeWidthCheck /\ ~WidthOk) => err = GRAPH_NOT_SUPPORTED
           /\ (BeforeWidthCheck /\ WidthOk /\ ~BooleanBias) => err = OK

\* a backward node of hidden dimension 12, rejected
C17_Witness ==
    /\ PreValidatedAttention /\ BeforeWidthCheck
    /\ kind = "sdpa_bwd"
    /\ given["Q"].dim[4] = 12
    /\ err = GRAPH_NOT_SUPPORTED


\* every check that precedes the one on the intermediate data type passes
BeforeIntermediateCheck ==
    /\ PortsAndStridesPass /\ DropoutPass
    /\ IF kind = "sdpa_fwd" THEN InferenceSet
       ELSE PaddingPass /\ ~ScaleTensorAndValue

\* C18: with the context's intermediate data type not set, pre_validate_node
\* of an attention node never returns OK, and returns ATTRIBUTE_NOT_SET when
\* every earlier check passes.
C18_IntermediateTypeRequired ==
    (PreValidatedAttention /\ ~IntermediateSet)
        => /\ err # OK
           /\ BeforeIntermediateCheck => err = ATTRIBUTE_NOT_SET

\* a forward node with padding and causal masks and no intermediate type
C18_Witness ==
    /\ PreValidatedAttention /\ ~IntermediateSet /\ BeforeIntermediateCheck
    /\ kind = "sdpa_fwd" /\ attr.padding_mask /\ attr.causal_mask
    /\ err = ATTRIBUTE_NOT_SET


\* every check that precedes the one on the bias data type passes
BeforeBiasCheck == BeforeWidthCheck /\ WidthOk

\* the sub nodes that read the Bias tensor
BiasConsumers == {i \in 1..Len(children) : \E j \in 1..Len(children[i].ins) :
                                              children[i].ins[j] = "Bias"}

\* C19: with a Bias tensor of boolean data type bound, pre_validate_node of
\* an attention node never returns OK and returns GRAPH_NOT_SUPPORTED when
\* every earlier check passes; no sub node adding the bias is ever created.
C19_BooleanBiasRejected ==
    (Attention /\ BooleanBias)
        => /\ pc = "pre_validated"
                => /\ err # OK
                   /\ BeforeBiasCheck => err = GRAPH_NOT_SUPPORTED
           /\ BiasConsumers = {}
           /\ pc \in {"built", "pre_validated"}

\* a backward node with a boolean bias among its other features, rejected
C19_Witness ==
    /\ PreValidatedAttention /\ BooleanBias /\ BeforeBiasCheck
    /\ kind = "sdpa_bwd" /\ attr.causal_mask
    /\ err = GRAPH_NOT_SUPPORTED
    /\ children = <<>>


---------------------------------------------------------------------------
(* The layout of the node workspace *)

\* the workspace-resident helpers of the node in the order of the
\* materialisation, each with the bytes it occupies
WorkspaceHelpers ==
    LET g == GivenDims
        alibi == IF attr.alibi_mask
                 THEN <<[h |-> mem.alibi_slopes, size |-> g.h * 4]>> ELSE <<>>
        dQ == IF kind = "sdpa_bwd" /\ ResidentDQAccum
              THEN <<[h |-> mem.dQ_accum, size |-> g.b * g.h * g.s_q * g.d * 4]>>
              ELSE <<>>
        sum == IF kind = "sdpa_bwd" /\ mem.softmax_sum # NULL /\ ~T[mem.softmax_sum].virt
               THEN <<[h |-> mem.softmax_sum, size |-> g.b * g.h * g.s_q * 4]>>
               ELSE <<>>
    IN  alibi \o dQ \o sum

\* the bytes of the first n helpers
RECURSIVE BytesBefore(_)
BytesBefore(n) ==
    IF n = 0 THEN 0 ELSE BytesBefore(n - 1) + WorkspaceHelpers[n].size

\* the byte range [lo, hi) bound to the i-th helper
RangeOf(i) ==
    [lo |-> pbv[WorkspaceHelpers[i].h].num,
     hi |-> pbv[WorkspaceHelpers[i].h].num + WorkspaceHelpers[i].size]

\* the copies and fills issued, each inside the range of some helper
WritesInsideRanges ==
    \A c \in 1..Len(calls) :
        calls[c].op \in {"cudaMemcpyAsync", "cudaMemsetAsync"}
            => \E i \in 1..Len(WorkspaceHelpers) :
                  /\ RangeOf(i).lo <= calls[c].off
                  /\ calls[c].off + calls[c].len <= RangeOf(i).hi

\* C20: after a successful materialisation the workspace ranges bound to the
\* alibi slopes, the dQ accumulator and the non-virtual softmax_sum of a
\* backward node, those that exist, start at 0 and follow one another in
\* that order, are pairwise disjoint and lie inside
\* [0, get_fe_workspace_size_node()); the forward node's alibi copy of h*4
\* bytes lies inside the size the forward node reports.
C20_WorkspaceRangesPacked ==
    (Attention /\ pc = "materialized" /\ err = OK)
        => /\ \A i \in 1..Len(WorkspaceHelpers) :
                /\ WorkspaceHelpers[i].h \in DOMAIN pbv
                /\ pbv[WorkspaceHelpers[i].h].kind = "ptr"
                /\ RangeOf(i).lo = BytesBefore(i - 1)
                /\ 0 <= RangeOf(i).lo /\ RangeOf(i).hi <= workspace
           /\ \A i, j \in 1..Len(WorkspaceHelpers) :
                i < j => RangeOf(i).hi <= RangeOf(j).lo
           /\ WritesInsideRanges

\* a backward node with all three helpers in its workspace
C20_Witness ==
    /\ kind = "sdpa_bwd" /\ pc = "materialized" /\ err = OK
    /\ Len(WorkspaceHelpers) = 3
    /\ RangeOf(1) = [lo |-> 0, hi |-> 8]
    /\ RangeOf(2).lo = 8
    /\ RangeOf(3).lo = RangeOf(2).hi
    /\ RangeOf(3).hi = workspace


---------------------------------------------------------------------------
(* The dQ accumulator of the backward node *)

BwdExpandedFirst == kind = "sdpa_bwd" /\ pc = "expanded" /\ err = OK

\* the accumulator as the expansion creates it
AccumulatorCreated ==
    /\ mem.dQ_accum # NULL
    /\ mem.dQ_accum \in DOMAIN T
    /\ mem.dQ_accum \notin DOMAIN given
    /\ ~T[mem.dQ_accum].virt
    /\ T[mem.dQ_accum].dtype = "FLOAT"
    /\ T[mem.dQ_accum].dim = <<GivenDims.b, GivenDims.h, GivenDims.s_q, GivenDims.d>>

\* matmul(dS, K) writes into the accumulator and one IDENTITY sub node,
\* placed directly after it, copies the accumulator into the caller's dQ
ThroughAccumulator ==
    /\ Cardinality(ChildrenNamed("matmul_dS_K")) = 1
    /\ Cardinality(ChildrenOfMode("IDENTITY")) = 1
    /\ \A i \in ChildrenNamed("matmul_dS_K") :
          /\ children[i].outs = <<mem.dQ_accum>>
          /\ ChildrenOfMode("IDENTITY") = {i + 1}
          /\ children[i + 1].ins = <<mem.dQ_accum>>
          /\ children[i + 1].outs = <<"dQ">>

\* matmul(dS, K) writes into the caller's dQ and no IDENTITY sub node exists
DirectlyIntoDQ ==
    /\ Cardinality(ChildrenNamed("matmul_dS_K")) = 1
    /\ \A i \in ChildrenNamed("matmul_dS_K") : children[i].outs = <<"dQ">>
    /\ ChildrenOfMode("IDENTITY") = {}

\* C21: the backward expansion creates the dQ accumulator (non-virtual,
\* float, shape {b, h, s_q, d}) iff the workspace optimisation is disabled;
\* with the accumulator, matmul(dS, K) writes into it and exactly one
\* IDENTITY sub node after the matmul copies it into the caller's dQ;
\* without it no accumulator exists, its size is 0, the matmul writes into
\* dQ and there is no IDENTITY sub node.
C21_AccumulatorIffOptDisabled ==
    BwdExpandedFirst
        => IF use_workspace_opt
           THEN /\ mem.dQ_accum = NULL
                /\ "dQ_accum" \notin DOMAIN T
                /\ sizes.dQ_accum_size = 0
                /\ DirectlyIntoDQ
           ELSE /\ AccumulatorCreated
                /\ sizes.dQ_accum_size
                     = GivenDims.b * GivenDims.h * GivenDims.s_q * GivenDims.d * 4
                /\ ThroughAccumulator

C21_Witness ==
    /\ BwdExpandedFirst /\ ~use_workspace_opt
    /\ AccumulatorCreated /\ ThroughAccumulator
    /\ ctx.version >= 8905 /\ ctx.major >= 9


\* the zero-fills the node has submitted
Fills == {c \in 1..Len(calls) : calls[c].op = "cudaMemsetAsync"}

BwdMaterialized == kind = "sdpa_bwd" /\ pc = "materialized"

\* the bytes [lo, hi) bound to the workspace-resident helper h of n bytes
BoundRange(h, n) == [lo |-> pbv[h].num, hi |-> pbv[h].num + n]

Apart(r, lo, hi) == hi <= r.lo \/ r.hi <= lo

\* the fill c leaves the ranges of the alibi slopes and of softmax_sum alone
FillSparesOthers(c) ==
    /\ (attr.alibi_mask /\ mem.alibi_slopes \in DOMAIN pbv)
          => Apart(BoundRange(mem.alibi_slopes, GivenDims.h * 4),
                   calls[c].off, calls[c].off + calls[c].len)
    /\ (mem.softmax_sum \in DOMAIN pbv)
          => Apart(BoundRange(mem.softmax_sum,
                              GivenDims.b * GivenDims.h * GivenDims.s_q * 4),
                   calls[c].off, calls[c].off + calls[c].len)

\* C22: when the dQ accumulator exists, the backward materialisation
\* submits one zero-fill of dQ_accum_size bytes over the accumulator's
\* workspace range, and records the accumulator's binding only after it (a
\* fill that fails leaves no binding); the fill overlaps neither the alibi
\* slopes nor softmax_sum, and nothing else is ever zero-filled.
C22_AccumulatorZeroFilled ==
    BwdMaterialized
        => /\ (err = OK /\ ResidentDQAccum)
                => /\ Cardinality(Fills) = 1
                   /\ mem.dQ_accum \in DOMAIN pbv
           /\ mem.dQ_accum \in DOMAIN pbv
                => /\ err = OK
                   /\ \E c \in Fills :
                        /\ calls[c].off = pbv[mem.dQ_accum].num
                        /\ calls[c].len = GivenDims.b * GivenDims.h * GivenDims.s_q
                                          * GivenDims.d * 4
                        /\ calls[c].len = sizes.dQ_accum_size
           /\ (err = CUDA_API_FAILED /\ Fills # {}) => mem.dQ_accum \notin DOMAIN pbv
           /\ Fills # {} => (ResidentDQAccum /\ Cardinality(Fills) = 1)
           /\ \A c \in Fills : FillSparesOthers(c)

\* alibi slopes, accumulator and softmax_sum in one workspace, the fill
\* covering the accumulator only
C22_Witness ==
    /\ BwdMaterialized /\ err = OK /\ ResidentDQAccum
    /\ attr.alibi_mask /\ mem.softmax_sum \in DOMAIN pbv
    /\ Cardinality(Fills) = 1
    /\ \A c \in Fills : calls[c].off = 8 /\ calls[c].len = sizes.dQ_accum_size


---------------------------------------------------------------------------
(* The score chain of the backward node against the forward node's *)

\* the position in chain ch of the sub node that produces h, 0 if none does
Producer(ch, h) ==
    IF \E i \in 1..Len(ch) : ch[i].outs[1] = h
    THEN CHOOSE i \in 1..Len(ch) : ch[i].outs[1] = h
    ELSE 0

\* an operand by what it is: the result of a sub node of the chain, or a
\* tensor from outside the chain
Wire(ch, h) == IF Producer(ch, h) # 0 THEN <<"node", Producer(ch, h)>> ELSE <<"tensor", h>>

\* sub node i of chain ch without its names; tbl holds the descriptors
Link(ch, tbl, i, typed) ==
    [mode |-> ch[i].mode,
     axis |-> ch[i].axis,
     ins |-> [j \in 1..Len(ch[i].ins) |-> Wire(ch, ch[i].ins[j])],
     m |-> ch[i].m, n |-> ch[i].n,
     cdt |-> IF typed THEN ch[i].cdt ELSE "any",
     odt |-> IF typed THEN tbl[ch[i].outs[1]].dtype ELSE "any"]

Chain(ch, tbl, typed) == [i \in 1..Len(ch) |-> Link(ch, tbl, i, typed)]

\* steps 1-6 of the forward expansion on this node's tensors and attributes
ForwardScores ==
    LET t1 == fill_from_context(given, ctx)
        dm == GatherDims(t1)
        s0 == Exp(Transpose(t1, "K"), <<>>, NoMembers, NoSizes)
    IN  Fwd_causal(Fwd_padding(Fwd_alibi(Fwd_bias(Fwd_attn_scale(Fwd_bmm1(s0, dm), attr)),
                                         attr, dm), attr), attr)

\* the sub nodes of the backward node from matmul(Q, K^T) to the one before
\* the subtraction of the statistics
BackwardScores ==
    LET from == CHOOSE i \in 1..Len(children) : children[i].name = "matmul_Q_KT"
        to == CHOOSE i \in 1..Len(children) : children[i].name = "sub_s_m"
    IN  SubSeq(children, from, to - 1)

SameScoreChain(typed) ==
    Chain(BackwardScores, T, typed)
        = Chain(ForwardScores.ch, InferSubNodes(ForwardScores.T, ForwardScores.ch, 1, ctx),
                typed)

\* C23: for every combination of attention scale, bias, alibi, padding mask
\* and causal mask, the sub nodes of the backward expansion from
\* matmul(Q, K^T) to the causal select form the chain of forward steps 1-6
\* of the same configuration: the same modes in the same order, the same
\* operand wiring, the same index axes and the same compute and output data
\* types.
C23_SameScoreChainAsForward ==
    BwdExpandedFirst => SameScoreChain(TRUE)


---------------------------------------------------------------------------
(* Padding mask and sequence lengths *)

Matmuls == {i \in 1..Len(children) : children[i].op = "matmul"}

\* the sequence-length tensors sub node i carries as m, n or k override
Overrides(i) == {children[i].m, children[i].n, children[i].k} \ {NULL}

\* the BINARY_SELECT sub nodes that read the padding constant
PaddingSelects ==
    {i \in ChildrenOfMode("BINARY_SELECT") :
        mem.negative_inf_padding # NULL /\ children[i].ins[2] = mem.negative_inf_padding}

\* C24: a node that pre_validate_node of either attention node accepts has
\* padding_mask enabled iff SEQ_LEN_Q and SEQ_LEN_KV are both bound; a
\* padding mask without both sequence lengths, or a sequence length without
\* padding mask, is never accepted and gives ATTRIBUTE_NOT_SET once the port
\* and stride checks pass.  So in every expanded node the matmuls carry
\* sequence-length overrides exactly when the padding select is present.
C24_PaddingIffSeqLens ==
    Attention
        => /\ (pc = "pre_validated" /\ err = OK)
                => (attr.padding_mask <=> SeqLensBound = {"SEQ_LEN_Q", "SEQ_LEN_KV"})
           /\ (pc = "pre_validated" /\ ~PaddingPass)
                => /\ err # OK
                   /\ (~RequiredBound \/ PreCheckedUnit) => err = ATTRIBUTE_NOT_SET
           /\ (pc = "expanded" /\ err = OK)
                => /\ Matmuls # {}
                   /\ \A i \in Matmuls :
                        IF PaddingSelects # {}
                        THEN Overrides(i) = {"SEQ_LEN_Q", "SEQ_LEN_KV"}
                        ELSE Overrides(i) = {}
                   /\ PaddingSelects # {} <=> attr.padding_mask
                   /\ Cardinality(PaddingSelects) <= 1

\* a backward node with padding: five matmuls, each with both overrides
C24_Witness ==
    /\ kind = "sdpa_bwd" /\ pc = "expanded" /\ err = OK
    /\ attr.padding_mask
    /\ Cardinality(PaddingSelects) = 1
    /\ Cardinality(Matmuls) = 5
    /\ \A i \in Matmuls : Overrides(i) = {"SEQ_LEN_Q", "SEQ_LEN_KV"}


---------------------------------------------------------------------------
(* The statistics of the forward softmax *)

\* the handles the sub nodes read or write
Wired == UNION {{children[i].ins[j] : j \in 1..Len(children[i].ins)}
                \cup {children[i].outs[j] : j \in 1..Len(children[i].outs)} :
                i \in 1..Len(children)}

\* a tensor the expansion created, virtual
FreshVirtual(h) == h \in DOMAIN T /\ h \notin DOMAIN given /\ T[h].virt

\* C25: in the forward expansion the statistics handed to softmax are a
\* freshly created virtual tensor when is_inference is true, the caller's
\* Stats port then being left out of every sub node, and exactly the tensor
\* the caller bound to Stats when is_inference is false; the probabilities
\* softmax writes are a virtual tensor in both modes.
C25_SoftmaxStatistics ==
    (kind = "sdpa_fwd" /\ pc = "expanded" /\ Len(children) > 0)
        => /\ Cardinality(SoftmaxNodes) = 1
           /\ \A i \in SoftmaxNodes :
                /\ Len(children[i].outs) = 2
                /\ FreshVirtual(children[i].outs[1])
                /\ attr.is_inference = "true"
                      => /\ FreshVirtual(children[i].outs[2])
                         /\ "Stats" \notin Wired
                         /\ "Stats" \in DOMAIN given => T["Stats"] = given["Stats"]
                /\ (attr.is_inference = "false" /\ "Stats" \in DOMAIN given)
                      => /\ children[i].outs[2] = "Stats"
                         /\ ~T["Stats"].virt

\* inference with a Stats tensor bound all the same
C25_Witness ==
    /\ kind = "sdpa_fwd" /\ pc = "expanded" /\ err = OK
    /\ attr.is_inference = "true" /\ "Stats" \in DOMAIN given
    /\ \A i \in SoftmaxNodes : FreshVirtual(children[i].outs[2])
    /\ "Stats" \notin Wired


---------------------------------------------------------------------------
(* The stride check of the backward node *)

\* a later check of pre_validate_node would reject the node
LaterCheckFails ==
    \/ BothDropoutSources
    \/ attr.padding_mask /\ ~SeqLensBound
    \/ ~attr.padding_mask /\ ({"SEQ_LEN_Q", "SEQ_LEN_KV"} \cap DOMAIN given) # {}
    \/ ctx.intermediate_data_type = "NOT_SET"

\* every stride the backward pre_validate_node reads was declared
AllReadDeclared == \A h \in BwdRequired : Declared(h)

\* the stride check with every stride it reads declared: a non-unit entry
\* is reported as GRAPH_NOT_SUPPORTED whatever the later checks would say
DeclaredStridesReportedFirst ==
    (kind = "sdpa_bwd" /\ RequiredBound /\ AllReadDeclared /\ pc = "pre_validated")
        => /\ PreCheckedBad => err = GRAPH_NOT_SUPPORTED
           /\ (PreCheckedUnit /\ err = GRAPH_NOT_SUPPORTED)
                 => (~WidthOk \/ BooleanBias)

\* C26: with every required port of the backward node bound,
\* pre_validate_node returns GRAPH_NOT_SUPPORTED whenever Q, K, V, O, dO, dQ,
\* dK or dV has an innermost stride other than 1 or one of the last two
\* strides of Stats is not 1, whatever the mutual-exclusion, padding and
\* context checks would say; with all these strides 1 the stride check does
\* not fail.
C26_NonUnitStrideReportedFirst ==
    (kind = "sdpa_bwd" /\ RequiredBound /\ pc = "pre_validated")
        => /\ PreCheckedBad => err = GRAPH_NOT_SUPPORTED
           /\ (PreCheckedUnit /\ err = GRAPH_NOT_SUPPORTED)
                 => (~WidthOk \/ BooleanBias)


---------------------------------------------------------------------------
(* What the layer-norm-backward expansion infers *)

DlnExpanded == kind = "dln" /\ pc = "expanded" /\ err = OK

\* the channels-last layout of a 4-d shape (N, C, H, W): C innermost, then
\* W, then H, then N
ChannelsLast(dim, stride) ==
    /\ Len(stride) = 4
    /\ stride[2] = 1
    /\ stride[4] = dim[2]
    /\ stride[3] = dim[2] * dim[4]
    /\ stride[1] = dim[2] * dim[4] * dim[3]

\* the shape the expansion gives h when the caller left it empty
ShapeFromX(h) ==
    IF h \in {"DY", "DX"} THEN given["X"].dim
    ELSE [i \in 1..Len(given["X"].dim) |-> IF i = 1 THEN 1 ELSE given["X"].dim[i]]

\* C27: the layer-norm-backward expansion infers only what the caller left
\* unset: DY and DX get X's shape when their shape is empty, DSCALE and
\* DBIAS get X's shape with dimension 0 replaced by 1 when theirs is empty,
\* each of the four gets the channels-last stride of its own shape when its
\* stride is empty, and a caller-set shape or stride, and X, stay as they
\* were.
C27_InfersOnlyUnset ==
    DlnExpanded
        => /\ T["X"] = given["X"]
           /\ \A h \in {"DY", "DX", "DSCALE", "DBIAS"} :
                /\ T[h].dim = IF given[h].dim = <<>> THEN ShapeFromX(h)
                              ELSE given[h].dim
                /\ IF given[h].stride = <<>>
                   THEN ChannelsLast(T[h].dim, T[h].stride)
                   ELSE T[h].stride = given[h].stride

\* the caller declared the outputs with a shape of their own and no stride,
\* and left DY wholly unset
C27_Witness ==
    /\ DlnExpanded
    /\ given["DY"].dim = <<>> /\ T["DY"].dim = given["X"].dim
    /\ given["DX"].dim # <<>> /\ given["DX"].dim # given["X"].dim
    /\ given["DX"].stride = <<>>
    /\ T["DX"].dim = given["DX"].dim
    /\ ChannelsLast(T["DX"].dim, T["DX"].stride)


---------------------------------------------------------------------------
(* Optional attributes read by the forward expansion *)

\* a Dropout_mask bound with no dropout probability
MaskOnly == "Dropout_mask" \in DOMAIN given /\ ~attr.dropout_probability.has

\* C28: on every node the forward pre_validate_node accepted, the expansion
\* never evaluates the value of an optional attribute that is unset; with a
\* Dropout_mask bound and no dropout probability it runs through the
\* dropout block without reading dropout_probability.
C28_NoUnsetOptionalRead ==
    (kind = "sdpa_fwd" /\ pc \in {"expanded", "reexpanded"})
        => /\ err # BAD_OPTIONAL_ACCESS
           /\ MaskOnly => ChildrenNamed("dropout_scale") # {}


---------------------------------------------------------------------------
(* Operands the forward expansion hands to its sub nodes *)

\* sub node i was handed a null pointer as operand or result
NullOperand(i) ==
    \/ \E j \in 1..Len(children[i].ins) : children[i].ins[j] = NULL
    \/ \E j \in 1..Len(children[i].outs) : children[i].outs[j] = NULL

\* C29: on every node the forward pre_validate_node accepted, each operand
\* the expansion hands to a sub node is a tensor: the statistics handed to
\* softmax in training mode, and the Seed and Offset handed to the rng sub
\* node whenever the dropout block is created.
C29_OperandsNonNull ==
    (kind = "sdpa_fwd" /\ pc = "expanded")
        => /\ \A i \in 1..Len(children) : ~NullOperand(i)
           /\ attr.is_inference = "false"
                 => \A i \in SoftmaxNodes : children[i].outs[2] \in DOMAIN given
           /\ \A i \in RngNodes : children[i].ins = <<"Seed", "Offset">>
                                  /\ {"Seed", "Offset"} \subseteq DOMAIN given


---------------------------------------------------------------------------
(* Layout of the tensors the attention expansions lay out themselves *)

\* the tensors an attention expansion creates with a shape and a stride of
\* its choosing: score and random-mask tensors, the dO * O product and its
\* reduction, softmax_sum, the reshaped P, dS and K, the alibi slopes, the
\* dQ accumulator and the 1-element constants
ExplicitlyLaidOut ==
    {h \in ({"bmm1::C", "rng::Y", "matmul_Q_KT::C", "matmul_dO_VT::C",
             "mul_dO_O::OUT_0", "reduce_dO_o::Y", "reshape_p::Y", "reshape_dS::Y",
             "reshape_k::Y", "alibi_slopes", "dQ_accum", "one_tensor",
             "negative_inf_padding", "negative_inf_causal", "dropout_scale",
             "Attn_scale", "Dropout_scale", "Dropout_scale_inv", mem.softmax_sum}
            \cap DOMAIN T) \ DOMAIN given :
        Len(T[h].dim) = 4 /\ Len(T[h].stride) = 4}

Elements(t) == t.dim[1] * t.dim[2] * t.dim[3] * t.dim[4]

\* the element offsets of the in-range indices of a 4-d tensor
Offsets(t) ==
    {i * t.stride[1] + j * t.stride[2] + k * t.stride[3] + l * t.stride[4] :
        i \in 0..(t.dim[1] - 1), j \in 0..(t.dim[2] - 1),
        k \in 0..(t.dim[3] - 1), l \in 0..(t.dim[4] - 1)}

\* the largest element offset (strides are not negative)
MaxOffset(t) ==
    (t.dim[1] - 1) * t.stride[1] + (t.dim[2] - 1) * t.stride[2]
    + (t.dim[3] - 1) * t.stride[3] + (t.dim[4] - 1) * t.stride[4]

\* injectivity is decided by enumeration up to this many elements
MaxEnumerated == 256

\* index -> offset is injective and stays below the number of elements
PackedLayout(t) ==
    /\ MaxOffset(t) < Elements(t)
    /\ Elements(t) <= MaxEnumerated => Cardinality(Offsets(t)) = Elements(t)

\* the bytes reserved in the workspace for helper h (the forward node
\* reserves h floats for its alibi slopes)
ReservedBytes(h) ==
    CASE kind = "sdpa_fwd" -> given["Q"].dim[2] * SizeofFloat
      [] h = mem.alibi_slopes -> sizes.alibi_slopes_size
      [] h = mem.dQ_accum -> sizes.dQ_accum_size
      [] OTHER -> sizes.softmax_sum_size

ResidentHelpers ==
    {h \in {mem.alibi_slopes, mem.dQ_accum, mem.softmax_sum} \cap ExplicitlyLaidOut :
        ~T[h].virt /\ ~T[h].pbv}

AttentionExpanded == Attention /\ pc = "expanded" /\ err = OK

\* C30: every tensor an attention expansion lays out itself is packed: its
\* index -> offset map is injective and every offset is below the number of
\* elements, so the elements of a workspace-resident helper lie inside the
\* bytes reserved for it.
C30_ExplicitLayoutsPacked ==
    AttentionExpanded
        => /\ \A h \in ExplicitlyLaidOut : PackedLayout(T[h])
           /\ \A h \in ResidentHelpers :
                (MaxOffset(T[h]) + 1) * SizeofFloat <= ReservedBytes(h)
====
